---- MODULE Spec2Model ----
(***************************************************************************)
(* ArkDataKit: the shared render-surface pool (OperatorDetailParser's      *)
(* class-level browser), the detail fetch (run / _init_browser_page /      *)
(* parse_all) and the glossary extraction loop (parse_terms).              *)
(*                                                                         *)
(* Every `await` of the source is a step of its own; what lies between two *)
(* awaits is one atomic step (asyncio is cooperative).  An awaited call of *)
(* the browser library either completes or raises; the environment picks.  *)
(***************************************************************************)
EXTENDS Naturals, Integers, Sequences, FiniteSets, TLC

\* ------------------------------------------------------------- bounds
\* callers of the pool (SpecConc runs them concurrently; Spec runs only W)
NProcs == 2
\* driver/browser/context launches over one behaviour
MaxLaunch == 2

Procs == 1..NProcs
W == 1
None == 0
Ids == 1..MaxLaunch
NoName == 0

VARIABLES
  \* OperatorDetailParser class attributes
  browser_initialized, shared_playwright, shared_browser, shared_context,
  \* the processes behind the handles: launch k owns driver k, browser k, context k
  liveDrivers, liveBrowsers, liveContexts, crashedCtx, nextId,
  \* each caller: position, top-level operation, whether close_shared_browser runs
  \* inside init_shared_browser's except handler, its launch, the context returned
  pc, op, inExcept, myId, handed,
  \* the last finished top-level call: [op, raised]
  last,
  \* one OperatorDetailParser object (the fetch in flight): the attempt of
  \* _init_browser_page, self.page, the tabs it has open, the markup as
  \* fetched and self.soup (<<>> is None), the extractors run, run's result
  attempt, page, openTabs, snap, soup, extractLog, runResult,
  \* the attempts of this fetch that ended in the except clause
  failed_attempts,
  \* parse_terms locals: total_terms, max_terms, the 1-based position in
  \* term_tags, processed_terms, the hovers done, terms (term_seen is its set
  \* of names), the candidate in hand, whether the pointer rests on a hovered
  \* term, what became of the last candidate, the list returned
  total_terms, max_terms, termIdx, processed_terms, hovered, terms, term_name,
  pointerOn, outcome, ptResult,
  \* parse_all on one page: the extractor at work, the dict under
  \* construction (section key -> value), the exception that left parse_all,
  \* the section markers and the incomplete structures the page turned out to
  \* have; the locals of parse_talents / parse_single_talent and of
  \* parse_skills / parse_single_skill (tbl: the table at work, rows:
  \* len(rows), idx), and whether the level rows seen so far had 5 cells;
  \* what the rows of the table at work turned out to be
  ppc, record, exc, markers, incomplete, tbl, rows, idx,
  talents, talent, is_remark_section,
  skill_tables, skills, skill, is_remark, levelRowsFull, seen,
  \* batch_sync_operators: where it stands, len(valid_names), i, success_count,
  \* how it ended; sync_operator_detail_to_db: operations, the pass of the loop
  \* over it, success, and whether every logical write so far reached the
  \* store; the names whose loop body was entered, the names synced
  bpc, nnames, item, success_count, batch_result, operations, opIdx, success,
  allWritten, attempted, synced,
  \* whether the caller of the batch wants it abandoned
  abandon,
  \* the store: the committed tables, the tables as the open transaction sees
  \* them, the foreign keys of the schema, the statement a write stands at,
  \* the write in progress, what the last write returned, the writes so far,
  \* the next AUTO_INCREMENT id, the list each (write, subject) last committed
  store, work, fk, wpc, call, ret, calls, nextRow, lastOk,
  \* clean_text: its arguments, where the call stands, what it returned;
  \* the roster parse: the data-rarity attribute of each op_div, ops_list
  \* (the rarity of each op_data), where parse stands
  tag, replace_plus, handle_br, tpc, text,
  op_divs, ops_list, rpc,
  \* one tooltip span through parse_terms: its cleaned text, where it stands,
  \* the term appended for it
  span, epc, entry

poolVars == <<browser_initialized, shared_playwright, shared_browser, shared_context>>
envVars == <<liveDrivers, liveBrowsers, liveContexts, crashedCtx, nextId>>
procVars == <<pc, op, inExcept, myId, handed, last>>
fetchVars == <<attempt, page, openTabs, snap, soup, extractLog, runResult,
               failed_attempts>>
termVars == <<total_terms, max_terms, termIdx, processed_terms, hovered, terms,
              term_name, pointerOn, outcome, ptResult>>
parseVars == <<ppc, record, exc, markers, incomplete, tbl, rows, idx,
               talents, talent, is_remark_section,
               skill_tables, skills, skill, is_remark, levelRowsFull, seen>>
syncVars == <<bpc, nnames, item, success_count, batch_result, operations, opIdx,
              success, allWritten, attempted, synced, abandon>>
storeVars == <<store, work, fk, wpc, call, ret, calls, nextRow, lastOk>>
pureVars == <<tag, replace_plus, handle_br, tpc, text, op_divs, ops_list, rpc,
              span, epc, entry>>
dataVars == <<parseVars, syncVars, storeVars, pureVars>>
vars == <<poolVars, envVars, procVars, fetchVars, termVars, dataVars>>

NoCall == [op |-> "none", raised |-> FALSE]

\* ------------------------------------------ the record built by parse_all
\* The markup of a page is drawn piece by piece, when an extractor looks at
\* it.  A text is 0 (the empty string) or 1 (a non-empty string); a section of
\* the record is kept by its shape: which fields are filled, which entries a
\* list has (a talent by its talent_type, a skill by its skill_number).

\* rows of a talent table, rows of a skill table, skill tables on a page
MaxTalentRows == 4
MaxSkillRows == 13
MaxSkillTables == 2

\* the keys of the dict parse_all returns that an extractor fills
SectionKeys == {"characteristic", "attributes", "talents", "skills", "terms"}
\* the keys base_attrs is initialised with: elite_0_level_1, elite_0_max,
\* elite_1_max, elite_2_max, trust_bonus
Tiers == 1..5
NoRecord == <<>>
NoTalent == [talent_type |-> 0, talent_name |-> 0, remarks |-> 0, details |-> <<>>]
NoSkill == [skill_number |-> 0, skill_name |-> 0, remark |-> 0, skill_levels |-> <<>>]

\* the rows of a table looked at so far: the indices of those with a th, of
\* those with td cells, and whether the first cell of the last row has text
NoSeen == [th |-> {}, cells |-> {}, last_text |-> 0]

ParseIdle ==
  /\ seen = NoSeen
  /\ ppc = "idle"
  /\ record = NoRecord
  /\ exc = "none"
  /\ markers = {}
  /\ incomplete = {}
  /\ tbl = 0
  /\ rows = 0
  /\ idx = 0
  /\ talents = <<>>
  /\ talent = NoTalent
  /\ is_remark_section = FALSE
  /\ skill_tables = 0
  /\ skills = <<>>
  /\ skill = NoSkill
  /\ is_remark = FALSE
  /\ levelRowsFull = TRUE

\* --------------------------------------------------- main.py: batch sync
\* names in valid_names
NSubjects == 2

NoResult == [kind |-> "none", value |-> 0]

SyncIdle ==
  /\ bpc = "idle"
  /\ nnames = 0
  /\ item = 0
  /\ success_count = 0
  /\ batch_result = NoResult
  /\ operations = <<>>
  /\ opIdx = 0
  /\ success = FALSE
  /\ allWritten = TRUE
  /\ attempted = {}
  /\ synced = {}
  /\ abandon = FALSE

\* ----------------------------------------------------- db_handler.py: store
\* write calls over one behaviour, entries of one list, child rows of one
\* entry (details of a talent, levels of a skill), distinct values
MaxCalls == 3
MaxItems == 1
MaxKids == 1
NVals == 2

Tables == {"attr", "talent", "talent_detail", "skill", "skill_level", "rel"}
WriteOps == {"attr", "talent", "skill", "rel"}
NoData == <<>>
NoWrite == [op |-> "none", name |-> 0, data |-> NoData]
EmptyStore == [t \in Tables |-> {}]

StoreIdle ==
  /\ store = EmptyStore
  /\ work = EmptyStore
  /\ fk = "none"
  /\ wpc = "off"
  /\ call = NoWrite
  /\ ret = FALSE
  /\ calls = 0
  /\ nextRow = 1
  /\ lastOk = [o \in WriteOps |-> [n \in 1..NSubjects |-> NoData]]

\* nothing launched, no call in progress
CoreIdle ==
  /\ browser_initialized = FALSE
  /\ shared_playwright = None
  /\ shared_browser = None
  /\ shared_context = None
  /\ liveDrivers = {}
  /\ liveBrowsers = {}
  /\ liveContexts = {}
  /\ crashedCtx = {}
  /\ nextId = 1
  /\ pc = [p \in Procs |-> "idle"]
  /\ op = [p \in Procs |-> "none"]
  /\ inExcept = [p \in Procs |-> FALSE]
  /\ myId = [p \in Procs |-> None]
  /\ handed = [p \in Procs |-> None]
  /\ last = NoCall
  /\ attempt = 0
  /\ page = None
  /\ openTabs = 0
  /\ snap = <<>>
  /\ soup = <<>>
  /\ extractLog = <<>>
  /\ runResult = "none"
  /\ failed_attempts = 0
  /\ total_terms = 0
  /\ max_terms = 0
  /\ termIdx = 0
  /\ processed_terms = 0
  /\ hovered = 0
  /\ terms = <<>>
  /\ term_name = NoName
  /\ pointerOn = FALSE
  /\ outcome = "none"
  /\ ptResult = <<>>

\* ------------------------------------------- utils.py, operators_list_get.py
\* longest string, longest text node and most children handed to clean_text
MaxStr == 5
MaxPiece == 4
MaxPieces == 2
\* most op_div entries of a roster page
MaxRoster == 2

NoTag == [kind |-> "none", v |-> <<>>]

TextIdle ==
  /\ tag = NoTag
  /\ replace_plus = TRUE
  /\ handle_br = FALSE
  /\ tpc = "idle"
  /\ text = <<>>

RosterIdle ==
  /\ op_divs = <<>>
  /\ ops_list = <<>>
  /\ rpc = "idle"

NoEntry == [term_name |-> <<>>, term_type |-> <<>>, term_description |-> 0]

EntryIdle ==
  /\ span = <<>>
  /\ epc = "idle"
  /\ entry = NoEntry

PureIdle == TextIdle /\ RosterIdle /\ EntryIdle

Init == CoreIdle /\ ParseIdle /\ SyncIdle /\ StoreIdle /\ PureIdle

\* ------------------------------------------------ init_shared_browser
\* init_shared_browser returns (raised = FALSE) or raises to its caller:
\* a top-level acquire, or _init_browser_page's try block.
InitReturn(p, raised) ==
  IF op[p] = "acquire"
    THEN /\ pc' = [pc EXCEPT ![p] = "idle"]
         /\ op' = [op EXCEPT ![p] = "none"]
         /\ last' = [op |-> "acquire", raised |-> raised]
    ELSE /\ pc' = [pc EXCEPT ![p] = IF raised THEN "ibp_except" ELSE "ibp_new_page"]
         /\ UNCHANGED <<op, last>>

\* fault variant of init_shared_browser_check: the readiness flag is not consulted
init_shared_browser_check_unguarded(p) ==
  /\ pc[p] = "isb_check"
  /\ pc' = [pc EXCEPT ![p] = "isb_start"]
  /\ UNCHANGED <<handed, op, last>>
  /\ UNCHANGED <<poolVars, envVars, inExcept, myId, fetchVars, termVars, dataVars>>

\* if cls._browser_initialized: return cls._shared_context
\* else: enter the try block and await async_playwright().start()
init_shared_browser_check(p) ==
  /\ pc[p] = "isb_check"
  /\ IF browser_initialized
       THEN /\ handed' = [handed EXCEPT ![p] = shared_context]
            /\ InitReturn(p, FALSE)
       ELSE /\ pc' = [pc EXCEPT ![p] = "isb_start"]
            /\ UNCHANGED <<handed, op, last>>
  /\ UNCHANGED <<poolVars, envVars, inExcept, myId, fetchVars, termVars, dataVars>>

\* except Exception: await cls.close_shared_browser(); raise
InitExcept(p) ==
  /\ pc' = [pc EXCEPT ![p] = "csb_context"]
  /\ inExcept' = [inExcept EXCEPT ![p] = TRUE]

\* cls._shared_playwright = await async_playwright().start()
init_shared_browser_start(p) ==
  /\ pc[p] = "isb_start"
  /\ \/ /\ nextId <= MaxLaunch
        /\ shared_playwright' = nextId
        /\ liveDrivers' = liveDrivers \cup {nextId}
        /\ myId' = [myId EXCEPT ![p] = nextId]
        /\ nextId' = nextId + 1
        /\ pc' = [pc EXCEPT ![p] = "isb_launch"]
        /\ UNCHANGED inExcept
     \/ /\ InitExcept(p)
        /\ UNCHANGED <<shared_playwright, liveDrivers, myId, nextId>>
  /\ UNCHANGED <<browser_initialized, shared_browser, shared_context,
                 liveBrowsers, liveContexts, crashedCtx, op, handed, last,
                 fetchVars, termVars, dataVars>>

\* cls._shared_browser = await cls._shared_playwright.chromium.launch(...)
\* (the launch was issued on the driver this caller had just stored)
init_shared_browser_launch(p) ==
  /\ pc[p] = "isb_launch"
  /\ \/ /\ myId[p] \in liveDrivers
        /\ shared_browser' = myId[p]
        /\ liveBrowsers' = liveBrowsers \cup {myId[p]}
        /\ pc' = [pc EXCEPT ![p] = "isb_new_context"]
        /\ UNCHANGED inExcept
     \/ /\ InitExcept(p)
        /\ UNCHANGED <<shared_browser, liveBrowsers>>
  /\ UNCHANGED <<browser_initialized, shared_playwright, shared_context,
                 liveDrivers, liveContexts, crashedCtx, nextId, op, myId, handed, last,
                 fetchVars, termVars, dataVars>>

\* cls._shared_context = await cls._shared_browser.new_context(...)
\* cls._browser_initialized = True; return cls._shared_context
init_shared_browser_new_context(p) ==
  /\ pc[p] = "isb_new_context"
  /\ \/ /\ myId[p] \in liveBrowsers
        /\ shared_context' = myId[p]
        /\ liveContexts' = liveContexts \cup {myId[p]}
        /\ browser_initialized' = TRUE
        /\ handed' = [handed EXCEPT ![p] = myId[p]]
        /\ InitReturn(p, FALSE)
        /\ UNCHANGED inExcept
     \/ /\ InitExcept(p)
        /\ UNCHANGED <<shared_context, liveContexts, browser_initialized, handed, op, last>>
  /\ UNCHANGED <<shared_playwright, shared_browser,
                 liveDrivers, liveBrowsers, crashedCtx, nextId, myId,
                 fetchVars, termVars, dataVars>>

\* ----------------------------------------------- close_shared_browser
\* close_shared_browser returns or raises: to init_shared_browser's except
\* handler (which raises in either case) or to a top-level release_all.
CloseReturn(p, raised) ==
  IF inExcept[p]
    THEN /\ inExcept' = [inExcept EXCEPT ![p] = FALSE]
         /\ InitReturn(p, TRUE)
    ELSE /\ pc' = [pc EXCEPT ![p] = "idle"]
         /\ op' = [op EXCEPT ![p] = "none"]
         /\ last' = [op |-> "release", raised |-> raised]
         /\ UNCHANGED inExcept

\* if cls._shared_context: await cls._shared_context.close()
\* (no try/except: an error of close() leaves the function; the context may
\* or may not have gone)
close_shared_browser_context(p) ==
  /\ pc[p] = "csb_context"
  /\ IF shared_context = None
       THEN /\ pc' = [pc EXCEPT ![p] = "csb_browser"]
            /\ UNCHANGED <<liveContexts, inExcept, op, last>>
       ELSE \/ /\ liveContexts' = liveContexts \ {shared_context}
               /\ pc' = [pc EXCEPT ![p] = "csb_browser"]
               /\ UNCHANGED <<inExcept, op, last>>
            \/ /\ \E gone \in BOOLEAN :
                    liveContexts' = IF gone THEN liveContexts \ {shared_context}
                                            ELSE liveContexts
               /\ CloseReturn(p, TRUE)
  /\ UNCHANGED <<poolVars, liveDrivers, liveBrowsers, crashedCtx, nextId, myId, handed,
                 fetchVars, termVars, dataVars>>

\* if cls._shared_browser: await cls._shared_browser.close()
\* (closing a browser closes its contexts)
close_shared_browser_browser(p) ==
  /\ pc[p] = "csb_browser"
  /\ IF shared_browser = None
       THEN /\ pc' = [pc EXCEPT ![p] = "csb_stop"]
            /\ UNCHANGED <<liveBrowsers, liveContexts, inExcept, op, last>>
       ELSE \/ /\ liveBrowsers' = liveBrowsers \ {shared_browser}
               /\ liveContexts' = liveContexts \ {shared_browser}
               /\ pc' = [pc EXCEPT ![p] = "csb_stop"]
               /\ UNCHANGED <<inExcept, op, last>>
            \/ /\ \E gone \in BOOLEAN :
                    /\ liveBrowsers' = IF gone THEN liveBrowsers \ {shared_browser}
                                            ELSE liveBrowsers
                    /\ liveContexts' = IF gone THEN liveContexts \ {shared_browser}
                                            ELSE liveContexts
               /\ CloseReturn(p, TRUE)
  /\ UNCHANGED <<poolVars, liveDrivers, crashedCtx, nextId, myId, handed,
                 fetchVars, termVars, dataVars>>

\* cls._browser_initialized = False; the three handles = None
ResetShared ==
  /\ browser_initialized' = FALSE
  /\ shared_playwright' = None
  /\ shared_browser' = None
  /\ shared_context' = None

\* if cls._shared_playwright: await cls._shared_playwright.stop()
\* then the four resets (no await in between).  Stopping a driver ends the
\* browser it launched.
close_shared_browser_stop(p) ==
  /\ pc[p] = "csb_stop"
  /\ IF shared_playwright = None
       THEN /\ ResetShared
            /\ CloseReturn(p, FALSE)
            /\ UNCHANGED <<liveDrivers, liveBrowsers, liveContexts>>
       ELSE \/ /\ liveDrivers' = liveDrivers \ {shared_playwright}
               /\ liveBrowsers' = liveBrowsers \ {shared_playwright}
               /\ liveContexts' = liveContexts \ {shared_playwright}
               /\ ResetShared
               /\ CloseReturn(p, FALSE)
            \/ /\ CloseReturn(p, TRUE)
               /\ UNCHANGED <<poolVars, liveDrivers, liveBrowsers, liveContexts>>
  /\ UNCHANGED <<crashedCtx, nextId, myId, handed, fetchVars, termVars, dataVars>>

\* --------------------------------------------------- top-level calls
\* await OperatorDetailParser.init_shared_browser()
CallAcquire(p) ==
  /\ pc[p] = "idle"
  /\ pc' = [pc EXCEPT ![p] = "isb_check"]
  /\ op' = [op EXCEPT ![p] = "acquire"]
  /\ UNCHANGED <<poolVars, envVars, inExcept, myId, handed, last, fetchVars, termVars, dataVars>>

\* await OperatorDetailParser.close_shared_browser()
CallRelease(p) ==
  /\ pc[p] = "idle"
  /\ pc' = [pc EXCEPT ![p] = "csb_context"]
  /\ op' = [op EXCEPT ![p] = "release"]
  /\ UNCHANGED <<poolVars, envVars, inExcept, myId, handed, last, fetchVars, termVars, dataVars>>

\* ------------------------------------------------------- page content
\* What a fetched detail page holds, as far as the extractors tell pages
\* apart: its tooltip spans (class mc-tooltips, cleaned text long enough, not
\* a number) by where they sit, and whether a section is malformed so that
\* its extractor raises.
\*   extra : inside the first th/td of a matched row of the extra-attribute table
\*   trait : inside a trait bullet, its text carried by a colour-hint span
\*   talent: inside a talent description span, its text carried by a colour-hint span
\*   body  : anywhere else
\* spans of the body a page of Spec may hold
MaxBody == 1
\* spans of the body a page of SpecTerms may hold
MaxCandidates == 21

Broken == {"none", "talents", "skills"}
Pages ==
  [extra : 0..1, trait : 0..1, talent : 0..1, body : 0..MaxBody, broken : Broken]

\* term_tags of parse_terms: the spans content_div.find_all(...) still finds
TermTags(s) == s.extra + s.trait + s.talent + s.body

\* a browser reports its crash: its context is gone, and so are its tabs
Crash(c) ==
  /\ liveBrowsers' = liveBrowsers \ {c}
  /\ liveContexts' = liveContexts \ {c}
  /\ crashedCtx' = crashedCtx \cup {c}
  /\ openTabs' = 0

\* fault variant of ClosePage: the tab stays open
ClosePage_leaves_tab == openTabs' = openTabs

\* await self.page.close(): the tab goes, if the crash has not taken it
ClosePage == openTabs' = IF page # None /\ openTabs > 0 THEN openTabs - 1 ELSE openTabs

\* ---------------------------------------------------------------- run
\* fault variant of max_retries: one attempt too many
max_retries_one_more == 3 + 1

\* max_retries = 3
max_retries == 3

\* parser = OperatorDetailParser(name); await parser.run(), name not empty:
\* the first attempt of _init_browser_page calls init_shared_browser
run_start ==
  /\ pc[W] = "idle"
  /\ pc' = [pc EXCEPT ![W] = "isb_check"]
  /\ op' = [op EXCEPT ![W] = "run"]
  /\ attempt' = 0
  /\ page' = None
  /\ snap' = <<>>
  /\ soup' = <<>>
  /\ extractLog' = <<>>
  /\ runResult' = "pending"
  /\ failed_attempts' = 0
  /\ UNCHANGED <<poolVars, envVars, inExcept, myId, handed, last, openTabs, termVars, dataVars>>

\* if not self.operator_name: return None
run_empty_name ==
  /\ pc[W] = "idle"
  /\ page' = None
  /\ snap' = <<>>
  /\ soup' = <<>>
  /\ extractLog' = <<>>
  /\ attempt' = 0
  /\ runResult' = "none"
  /\ failed_attempts' = 0
  /\ last' = [op |-> "run", raised |-> FALSE]
  /\ UNCHANGED <<poolVars, envVars, pc, op, inExcept, myId, handed, openTabs, termVars, dataVars>>

\* an awaited call on the page inside _init_browser_page's try block
PageOp(at, to) ==
  /\ pc[W] = at
  /\ \/ /\ handed[W] \in liveContexts
        /\ pc' = [pc EXCEPT ![W] = to]
        /\ UNCHANGED <<envVars, openTabs>>
     \/ /\ pc' = [pc EXCEPT ![W] = "ibp_except"]
        /\ UNCHANGED <<envVars, openTabs>>
     \/ /\ handed[W] \in liveContexts
        /\ Crash(handed[W])
        /\ pc' = [pc EXCEPT ![W] = "ibp_except"]
        /\ UNCHANGED <<liveDrivers, nextId>>
  /\ UNCHANGED <<poolVars, op, inExcept, myId, handed, last,
                 attempt, page, snap, soup, extractLog, runResult, failed_attempts,
                 termVars, dataVars>>

\* self.page = await context.new_page()
init_browser_page_new_page ==
  /\ pc[W] = "ibp_new_page"
  /\ \/ /\ handed[W] \in liveContexts
        /\ page' = 1
        /\ openTabs' = openTabs + 1
        /\ pc' = [pc EXCEPT ![W] = "ibp_goto"]
     \/ /\ pc' = [pc EXCEPT ![W] = "ibp_except"]
        /\ UNCHANGED <<page, openTabs>>
  /\ UNCHANGED <<poolVars, envVars, op, inExcept, myId, handed, last,
                 attempt, snap, soup, extractLog, runResult, failed_attempts,
                 termVars, dataVars>>

\* await self.page.goto(self.url, wait_until="load", timeout=60000)
init_browser_page_goto == PageOp("ibp_goto", "ibp_wait_selector")

\* await self.page.wait_for_selector("#mw-content-text", timeout=60000)
init_browser_page_wait_selector == PageOp("ibp_wait_selector", "ibp_networkidle")

\* fault variant of init_browser_page_networkidle: on to parse_all without
\* the extra delay
init_browser_page_networkidle_no_delay == PageOp("ibp_networkidle", "parse_all")

\* await self.page.wait_for_load_state("networkidle")
init_browser_page_networkidle == PageOp("ibp_networkidle", "ibp_sleep")

\* await asyncio.sleep(1); return None: run goes on to parse_all
init_browser_page_sleep ==
  /\ pc[W] = "ibp_sleep"
  /\ pc' = [pc EXCEPT ![W] = "parse_all"]
  /\ UNCHANGED <<poolVars, envVars, op, inExcept, myId, handed, last, fetchVars, termVars, dataVars>>

\* except Exception: on the last attempt raise (run catches it and returns
\* None); otherwise close the page, sleep 3 s and try again
init_browser_page_except ==
  /\ pc[W] = "ibp_except"
  /\ failed_attempts' = failed_attempts + 1
  /\ IF attempt = max_retries - 1
       THEN /\ pc' = [pc EXCEPT ![W] = "run_finally"]
            /\ runResult' = "none"
            /\ UNCHANGED <<attempt, page, openTabs>>
       ELSE /\ ClosePage
            /\ page' = None
            /\ attempt' = attempt + 1
            /\ pc' = [pc EXCEPT ![W] = "isb_check"]
            /\ UNCHANGED runResult
  /\ UNCHANGED <<poolVars, envVars, op, inExcept, myId, handed, last,
                 snap, soup, extractLog, termVars, dataVars>>

\* an exception inside parse_all: run logs it and returns None
RunFails ==
  /\ pc' = [pc EXCEPT ![W] = "run_finally"]
  /\ runResult' = "none"

\* _get_soup: content = await self.page.content(); self.soup = BeautifulSoup(...)
\* (only the first extractor finds self.soup empty)
get_soup ==
  /\ pc[W] = "parse_all"
  /\ soup = <<>>
  /\ \/ /\ handed[W] \in liveContexts
        /\ \E content \in Pages :
             /\ snap' = <<content>>
             /\ soup' = <<content>>
        /\ UNCHANGED <<envVars, openTabs, pc, runResult>>
     \/ /\ RunFails
        /\ UNCHANGED <<envVars, openTabs, snap, soup>>
     \/ /\ handed[W] \in liveContexts
        /\ Crash(handed[W])
        /\ RunFails
        /\ UNCHANGED <<liveDrivers, nextId, snap, soup>>
  /\ UNCHANGED <<poolVars, op, inExcept, myId, handed, last,
                 attempt, page, extractLog, failed_attempts, termVars, dataVars>>

\* fault variant of ParseOrder: attributes before the trait table
ParseOrder_attrs_first == <<"attrs", "chara", "talents", "skills", "terms">>

\* parse_all builds its dict in this order (the order of its await expressions)
ParseOrder == <<"chara", "attrs", "talents", "skills", "terms">>

NextSection ==
  IF Len(extractLog) < Len(ParseOrder) THEN ParseOrder[Len(extractLog) + 1] ELSE "return"

Extractor(name) ==
  /\ pc[W] = "parse_all"
  /\ soup # <<>>
  /\ NextSection = name
  /\ extractLog' = Append(extractLog, name)

\* parse_chara: clean_desc(li) of every trait bullet replaces the colour-hint
\* and display:none spans of the shared soup by ""
parse_chara ==
  /\ Extractor("chara")
  /\ soup' = <<[soup[1] EXCEPT !.trait = 0]>>
  /\ UNCHANGED <<poolVars, envVars, procVars, attempt, page, openTabs, snap,
                 runResult, failed_attempts, termVars, dataVars>>

\* parse_attrs: get_pure_text(ths[0]) / get_pure_text(tds[0]) extract() the
\* mc-tooltips and mdi spans of the shared soup
parse_attrs ==
  /\ Extractor("attrs")
  /\ soup' = <<[soup[1] EXCEPT !.extra = 0]>>
  /\ UNCHANGED <<poolVars, envVars, procVars, attempt, page, openTabs, snap,
                 runResult, failed_attempts, termVars, dataVars>>

\* parse_talents: tds[1] / tds[2] of a detail row with fewer than 3 cells
\* raise IndexError; otherwise clean_desc strips the description spans
parse_talents ==
  /\ Extractor("talents")
  /\ IF soup[1].broken = "talents"
       THEN /\ RunFails
            /\ UNCHANGED soup
       ELSE /\ soup' = <<[soup[1] EXCEPT !.talent = 0]>>
            /\ UNCHANGED <<pc, runResult>>
  /\ UNCHANGED <<poolVars, envVars, op, inExcept, myId, handed, last,
                 attempt, page, openTabs, snap, failed_attempts, termVars, dataVars>>

\* parse_skills: skill_header.find_parent("h2") is None for a heading outside
\* an h2 and .find_next_sibling raises AttributeError; otherwise read-only
parse_skills ==
  /\ Extractor("skills")
  /\ IF soup[1].broken = "skills"
       THEN RunFails
       ELSE UNCHANGED <<pc, runResult>>
  /\ UNCHANGED <<poolVars, envVars, op, inExcept, myId, handed, last,
                 attempt, page, openTabs, snap, soup, failed_attempts, termVars, dataVars>>

\* return result (every value of the dict has been awaited)
run_return ==
  /\ pc[W] = "parse_all"
  /\ NextSection = "return"
  /\ pc' = [pc EXCEPT ![W] = "run_finally"]
  /\ runResult' = "record"
  /\ UNCHANGED <<poolVars, envVars, op, inExcept, myId, handed, last,
                 attempt, page, openTabs, snap, soup, extractLog, failed_attempts,
                 termVars, dataVars>>

\* fault variant of run_finally: the finally clause does not close the page
run_finally_keeps_page ==
  /\ pc[W] = "run_finally"
  /\ pc' = [pc EXCEPT ![W] = "idle"]
  /\ op' = [op EXCEPT ![W] = "none"]
  /\ last' = [op |-> "run", raised |-> FALSE]
  /\ handed' = [handed EXCEPT ![W] = None]
  /\ pointerOn' = FALSE
  /\ ptResult' = <<>>
  /\ UNCHANGED <<poolVars, envVars, inExcept, myId, page, openTabs,
                 attempt, snap, soup, extractLog, runResult, failed_attempts,
                 total_terms, max_terms, termIdx, processed_terms, hovered, terms,
                 term_name, outcome, dataVars>>

\* finally: if self.page: await self.page.close(); self.page = None
run_finally ==
  /\ pc[W] = "run_finally"
  /\ ClosePage
  /\ page' = None
  /\ pc' = [pc EXCEPT ![W] = "idle"]
  /\ op' = [op EXCEPT ![W] = "none"]
  /\ last' = [op |-> "run", raised |-> FALSE]
  /\ handed' = [handed EXCEPT ![W] = None]
  /\ pointerOn' = FALSE
  /\ ptResult' = <<>>
  /\ UNCHANGED <<poolVars, envVars, inExcept, myId,
                 attempt, snap, soup, extractLog, runResult, failed_attempts,
                 total_terms, max_terms, termIdx, processed_terms, hovered, terms,
                 term_name, outcome, dataVars>>

\* -------------------------------------------------------- parse_terms
\* max_terms = min(total_terms, 20)
TermCap == 20
\* distinct cleaned texts the candidates of a page draw from
NNames == 2
TermNames == 1..NNames

Min(a, b) == IF a <= b THEN a ELSE b

\* term_seen
TermSeen == {terms[i].term_name : i \in 1..Len(terms)}

\* the exceptions one candidate can raise: PlaywrightTimeoutError,
\* AttributeError, any other Exception, an Exception whose message says the
\* target crashed
NonCrashKinds == {"timeout", "attribute", "other"}
FailKinds == NonCrashKinds \cup {"crash"}

\* the final pass over terms: keep the first entry of every term_name
RECURSIVE DedupFrom(_, _, _)
DedupFrom(ts, i, acc) ==
  IF i > Len(ts) THEN acc
  ELSE IF \E j \in 1..Len(acc) : acc[j].term_name = ts[i].term_name
         THEN DedupFrom(ts, i + 1, acc)
         ELSE DedupFrom(ts, i + 1, Append(acc, ts[i]))
Dedup(ts) == DedupFrom(ts, 1, <<>>)

\* the locals of parse_terms are gone once it has returned
TermLocalsGone ==
  /\ total_terms' = 0
  /\ max_terms' = 0
  /\ termIdx' = 0
  /\ processed_terms' = 0
  /\ hovered' = 0
  /\ terms' = <<>>
  /\ term_name' = NoName
  /\ outcome' = "none"

TermFrame ==
  UNCHANGED <<poolVars, liveDrivers, nextId, op, inExcept, myId, handed, last,
              attempt, page, snap, soup, runResult, failed_attempts, dataVars>>

\* parse_terms up to the first await: term_tags, total_terms and the early
\* return for a page without candidates.  (div#mw-content-text is there:
\* _init_browser_page has waited for it before the markup was fetched.)
parse_terms ==
  /\ Extractor("terms")
  /\ ptResult' = <<>>
  /\ IF TermTags(soup[1]) = 0
       THEN UNCHANGED <<pc, total_terms>>
       ELSE /\ total_terms' = TermTags(soup[1])
            /\ pc' = [pc EXCEPT ![W] = "pt_evaluate"]
  /\ UNCHANGED <<max_terms, termIdx, processed_terms, hovered, terms, term_name,
                 pointerOn, outcome>>
  /\ UNCHANGED <<liveBrowsers, liveContexts, crashedCtx, openTabs>>
  /\ TermFrame

\* await self.page.evaluate("() => document.title"); any exception: return
\* terms (still empty).  Otherwise max_terms and processed_terms are set.
parse_terms_evaluate ==
  /\ pc[W] = "pt_evaluate"
  /\ \/ /\ handed[W] \in liveContexts
        /\ max_terms' = Min(total_terms, TermCap)
        /\ termIdx' = 1
        /\ pc' = [pc EXCEPT ![W] = "pt_loop"]
        /\ UNCHANGED <<liveBrowsers, liveContexts, crashedCtx, openTabs, ptResult>>
        /\ UNCHANGED total_terms
     \/ /\ ptResult' = terms
        /\ pc' = [pc EXCEPT ![W] = "parse_all"]
        /\ total_terms' = 0
        /\ UNCHANGED <<liveBrowsers, liveContexts, crashedCtx, openTabs, max_terms, termIdx>>
     \/ /\ handed[W] \in liveContexts
        /\ Crash(handed[W])
        /\ ptResult' = terms
        /\ pc' = [pc EXCEPT ![W] = "parse_all"]
        /\ total_terms' = 0
        /\ UNCHANGED <<max_terms, termIdx>>
  /\ UNCHANGED <<processed_terms, hovered, terms, term_name,
                 pointerOn, outcome, extractLog>>
  /\ TermFrame

\* fault variant of parse_terms_next: the candidate's text is not looked up
\* in term_seen
parse_terms_next_unseen ==
  /\ pc[W] = "pt_loop"
  /\ IF termIdx > total_terms \/ processed_terms >= max_terms
       THEN /\ pc' = [pc EXCEPT ![W] = "pt_final"]
            /\ UNCHANGED <<termIdx, term_name, outcome>>
       ELSE \E n \in TermNames :
              /\ term_name' = n
              /\ outcome' = "none"
              /\ pc' = [pc EXCEPT ![W] = "pt_hover"]
              /\ UNCHANGED termIdx
  /\ UNCHANGED <<liveBrowsers, liveContexts, crashedCtx, openTabs, total_terms,
                 max_terms, processed_terms, hovered, terms, pointerOn, ptResult,
                 extractLog>>
  /\ TermFrame

\* the head of the for loop, up to the first await of the candidate: the
\* end of term_tags, the cap, the duplicate check.  (The filter of term_tags
\* leaves no candidate with an empty name or without an mc-tooltips class, so
\* `not term_name` and `not valid_classes` never hold.)
parse_terms_next ==
  /\ pc[W] = "pt_loop"
  /\ IF termIdx > total_terms \/ processed_terms >= max_terms
       THEN /\ pc' = [pc EXCEPT ![W] = "pt_final"]
            /\ UNCHANGED <<termIdx, term_name, outcome>>
       ELSE \E n \in TermNames :
              IF n \in TermSeen
                THEN /\ termIdx' = termIdx + 1
                     /\ outcome' = "duplicate"
                     /\ UNCHANGED <<pc, term_name>>
                ELSE /\ term_name' = n
                     /\ outcome' = "none"
                     /\ pc' = [pc EXCEPT ![W] = "pt_hover"]
                     /\ UNCHANGED termIdx
  /\ UNCHANGED <<liveBrowsers, liveContexts, crashedCtx, openTabs, total_terms,
                 max_terms, processed_terms, hovered, terms, pointerOn, ptResult,
                 extractLog>>
  /\ TermFrame

\* fault variant of TermFailure: every exception breaks out of the loop
TermFailure_any_breaks(kind) ==
  /\ outcome' = kind
  /\ pc' = [pc EXCEPT ![W] = "pt_final"]
  /\ UNCHANGED <<termIdx, processed_terms>>
  /\ IF kind = "crash"
       THEN Crash(handed[W])
       ELSE UNCHANGED <<liveBrowsers, liveContexts, crashedCtx, openTabs>>

\* the except clauses of one candidate: a crash breaks out of the loop, every
\* other exception counts the candidate and continues
TermFailure(kind) ==
  /\ outcome' = kind
  /\ IF kind = "crash"
       THEN /\ Crash(handed[W])
            /\ pc' = [pc EXCEPT ![W] = "pt_final"]
            /\ UNCHANGED <<termIdx, processed_terms>>
       ELSE /\ processed_terms' = processed_terms + 1
            /\ termIdx' = termIdx + 1
            /\ pc' = [pc EXCEPT ![W] = "pt_loop"]
            /\ UNCHANGED <<liveBrowsers, liveContexts, crashedCtx, openTabs>>

\* locator.count(), wait_for(state="visible"), scroll_into_view_if_needed(),
\* hover(force=True), sleep(tooltip_render)
parse_terms_hover ==
  /\ pc[W] = "pt_hover"
  /\ \/ /\ handed[W] \in liveContexts
        /\ hovered' = hovered + 1
        /\ pointerOn' = TRUE
        /\ pc' = [pc EXCEPT ![W] = "pt_tooltip"]
        /\ UNCHANGED <<liveBrowsers, liveContexts, crashedCtx, openTabs, termIdx,
                       processed_terms, outcome>>
     \/ /\ \E kind \in FailKinds :
             /\ kind = "crash" => handed[W] \in liveContexts
             /\ TermFailure(kind)
        /\ UNCHANGED <<hovered, pointerOn>>
  /\ UNCHANGED <<total_terms, max_terms, terms, term_name, ptResult, extractLog>>
  /\ TermFrame

\* the probe of tooltip_selectors and the reading of the tooltip: no tooltip
\* found and a description below desc_min_length `continue` before
\* processed_terms += 1; an accepted term is appended (if term_name not in
\* term_seen) and counted
parse_terms_tooltip ==
  /\ pc[W] = "pt_tooltip"
  /\ \/ /\ handed[W] \in liveContexts
        /\ \E res \in {"no_tooltip", "short_desc"} : outcome' = res
        /\ termIdx' = termIdx + 1
        /\ pc' = [pc EXCEPT ![W] = "pt_loop"]
        /\ UNCHANGED <<liveBrowsers, liveContexts, crashedCtx, openTabs,
                       processed_terms, terms>>
     \/ /\ handed[W] \in liveContexts
        /\ outcome' = "accepted"
        /\ terms' = IF term_name \notin TermSeen
                      THEN Append(terms, [term_name |-> term_name])
                      ELSE terms
        /\ processed_terms' = processed_terms + 1
        /\ pc' = [pc EXCEPT ![W] = "pt_mouse"]
        /\ UNCHANGED <<liveBrowsers, liveContexts, crashedCtx, openTabs, termIdx>>
     \/ /\ \E kind \in FailKinds :
             /\ kind = "crash" => handed[W] \in liveContexts
             /\ TermFailure(kind)
        /\ UNCHANGED terms
  /\ UNCHANGED <<total_terms, max_terms, hovered, term_name, pointerOn, ptResult,
                 extractLog>>
  /\ TermFrame

\* try: await self.page.mouse.move(100, 100); sleep(0.1) / except: warning.
\* Then the next candidate.
parse_terms_mouse ==
  /\ pc[W] = "pt_mouse"
  /\ \/ /\ handed[W] \in liveContexts
        /\ pointerOn' = FALSE
        /\ UNCHANGED <<liveBrowsers, liveContexts, crashedCtx, openTabs>>
     \/ /\ UNCHANGED <<pointerOn, liveBrowsers, liveContexts, crashedCtx, openTabs>>
     \/ /\ handed[W] \in liveContexts
        /\ Crash(handed[W])
        /\ UNCHANGED pointerOn
  /\ termIdx' = termIdx + 1
  /\ pc' = [pc EXCEPT ![W] = "pt_loop"]
  /\ UNCHANGED <<total_terms, max_terms, processed_terms, hovered, terms, term_name,
                 outcome, ptResult, extractLog>>
  /\ TermFrame

\* after the loop: unique_terms, return unique_terms
parse_terms_final ==
  /\ pc[W] = "pt_final"
  /\ ptResult' = Dedup(terms)
  /\ pc' = [pc EXCEPT ![W] = "parse_all"]
  /\ TermLocalsGone
  /\ UNCHANGED <<liveBrowsers, liveContexts, crashedCtx, openTabs, pointerOn, extractLog>>
  /\ TermFrame

TermStep ==
  \/ parse_terms_evaluate
  \/ parse_terms_next
  \/ parse_terms_hover
  \/ parse_terms_tooltip
  \/ parse_terms_mouse
  \/ parse_terms_final


FetchStep ==
  \/ init_browser_page_new_page
  \/ init_browser_page_goto
  \/ init_browser_page_wait_selector
  \/ init_browser_page_networkidle
  \/ init_browser_page_sleep
  \/ init_browser_page_except
  \/ get_soup
  \/ parse_chara
  \/ parse_attrs
  \/ parse_talents
  \/ parse_skills
  \/ parse_terms
  \/ run_return
  \/ run_finally


PoolStep(p) ==
  \/ init_shared_browser_check(p)
  \/ init_shared_browser_start(p)
  \/ init_shared_browser_launch(p)
  \/ init_shared_browser_new_context(p)
  \/ close_shared_browser_context(p)
  \/ close_shared_browser_browser(p)
  \/ close_shared_browser_stop(p)

\* several callers of the pool on one event loop
NextConc ==
  \E p \in Procs : CallAcquire(p) \/ CallRelease(p) \/ PoolStep(p)

SpecConc == Init /\ [][NextConc]_vars

\* one sequential caller: acquire, release_all and detail fetches in any order
Next ==
  \/ CallAcquire(W)
  \/ CallRelease(W)
  \/ PoolStep(W)
  \/ run_start
  \/ run_empty_name
  \/ FetchStep
  \/ TermStep

Spec == Init /\ [][Next]_vars

\* parse_terms of one fetch, entered on a ready pool with the page loaded and
\* the four earlier extractors done, over pages of up to MaxCandidates spans
InitTerms ==
  /\ browser_initialized = TRUE
  /\ shared_playwright = 1
  /\ shared_browser = 1
  /\ shared_context = 1
  /\ liveDrivers = {1}
  /\ liveBrowsers = {1}
  /\ liveContexts = {1}
  /\ crashedCtx = {}
  /\ nextId = 2
  /\ pc = [p \in Procs |-> IF p = W THEN "parse_all" ELSE "idle"]
  /\ op = [p \in Procs |-> IF p = W THEN "run" ELSE "none"]
  /\ inExcept = [p \in Procs |-> FALSE]
  /\ myId = [p \in Procs |-> None]
  /\ handed = [p \in Procs |-> IF p = W THEN 1 ELSE None]
  /\ last = NoCall
  /\ attempt = 0
  /\ page = 1
  /\ openTabs = 1
  /\ \E n \in 0..MaxCandidates :
       /\ snap = <<[extra |-> 0, trait |-> 0, talent |-> 0, body |-> n, broken |-> "none"]>>
       /\ soup = snap
  /\ extractLog = <<"chara", "attrs", "talents", "skills">>
  /\ runResult = "pending"
  /\ failed_attempts = 0
  /\ total_terms = 0
  /\ max_terms = 0
  /\ termIdx = 0
  /\ processed_terms = 0
  /\ hovered = 0
  /\ terms = <<>>
  /\ term_name = NoName
  /\ pointerOn = FALSE
  /\ outcome = "none"
  /\ ptResult = <<>>
  /\ ParseIdle
  /\ SyncIdle
  /\ StoreIdle
  /\ PureIdle

NextTerms ==
  \/ parse_terms
  \/ TermStep

SpecTerms == InitTerms /\ [][NextTerms]_vars

\* an exception leaves the extractor and parse_all; run catches it and
\* returns None
ParseRaises(e) ==
  /\ exc' = e
  /\ record' = NoRecord
  /\ ppc' = "done"

\* result of parse_chara for a page without table.wikitable.logo, with one
\* whose second row has its two cells, with one whose second row has no td
CharaOf(trait) ==
  [branch_name |-> IF trait = "cells" THEN 1 ELSE 0,
   branch_description |-> IF trait = "cells" THEN 1 ELSE 0,
   trait_details |-> IF trait = "absent" THEN 0 ELSE 1]

\* "characteristic": await self.parse_chara()
parse_chara_result ==
  /\ ppc = "chara"
  /\ \E trait \in {"absent", "cells", "no_cells"} :
       /\ record' = record @@ ("characteristic" :> CharaOf(trait))
       /\ markers' = IF trait = "absent" THEN markers ELSE markers \cup {"trait_tbl"}
       /\ incomplete' = IF trait = "no_cells" THEN incomplete \cup {"trait_row"}
                                               ELSE incomplete
  /\ ppc' = "attrs"
  /\ UNCHANGED <<exc, tbl, rows, idx, talents, talent, is_remark_section,
                 skill_tables, skills, skill, is_remark, levelRowsFull>>
  /\ UNCHANGED <<poolVars, envVars, procVars, fetchVars, termVars, syncVars, storeVars, pureVars>>
  /\ UNCHANGED seen

\* fault variant of AttrsOf: without the base table the tier maps are left out
AttrsOf_no_tiers(base, extra) ==
  [base_attributes |-> IF base = 0 THEN <<>> ELSE [t \in Tiers |-> IF t <= base THEN 4 ELSE 0],
   extra_attributes |-> extra]

\* result of parse_attrs: base_attrs always has its five tier maps, the
\* first `base` of them filled with the four attributes of the table's rows;
\* extra_attrs has `extra` fields
AttrsOf(base, extra) ==
  [base_attributes |-> [t \in Tiers |-> IF t <= base THEN 4 ELSE 0],
   extra_attributes |-> extra]

\* "attributes": await self.parse_attrs(): no attribute table, the base
\* table only (the early return), both tables
parse_attrs_result ==
  /\ ppc = "attrs"
  /\ \E a \in {"absent", "base_only", "both"} :
       /\ record' = record @@
            ("attributes" :> AttrsOf(IF a = "absent" THEN 0 ELSE 4,
                                     IF a = "both" THEN 1 ELSE 0))
       /\ markers' = markers \cup (IF a = "absent" THEN {} ELSE {"base_tbl"})
                             \cup (IF a = "both" THEN {"extra_tbl"} ELSE {})
  /\ ppc' = "talents"
  /\ UNCHANGED <<exc, incomplete, tbl, rows, idx, talents, talent, is_remark_section,
                 skill_tables, skills, skill, is_remark, levelRowsFull>>
  /\ UNCHANGED <<poolVars, envVars, procVars, fetchVars, termVars, syncVars, storeVars, pureVars>>
  /\ UNCHANGED seen

\* the locals of parse_talents are gone once it has returned
TalentLocalsGone ==
  /\ tbl' = 0
  /\ rows' = 0
  /\ idx' = 0
  /\ talents' = <<>>
  /\ talent' = NoTalent
  /\ is_remark_section' = FALSE

\* return talents
parse_talents_return(ts) ==
  /\ record' = record @@ ("talents" :> ts)
  /\ ppc' = "skills"
  /\ TalentLocalsGone

\* parse_talents up to the first table: talent_header, first_talent_tbl
parse_talents_header ==
  /\ ppc = "talents"
  /\ \/ /\ parse_talents_return(<<>>)
        /\ UNCHANGED markers
     \/ /\ markers' = markers \cup {"talent_header"}
        /\ ppc' = "talent_table"
        /\ tbl' = 1
        /\ UNCHANGED <<record, rows, idx, talents, talent, is_remark_section>>
  /\ UNCHANGED <<exc, incomplete, skill_tables, skills, skill, is_remark, levelRowsFull>>
  /\ UNCHANGED <<poolVars, envVars, procVars, fetchVars, termVars, syncVars, storeVars, pureVars>>
  /\ UNCHANGED seen

\* first_talent_tbl / second_talent_tbl: without the table parse_talents
\* returns (no first table, no second one); with it parse_single_talent
\* starts on rows = table.find_all("tr")
parse_talents_table ==
  /\ ppc = "talent_table"
  /\ \/ /\ parse_talents_return(talents)
        /\ UNCHANGED seen
     \/ /\ \E n \in 0..MaxTalentRows : rows' = n
        /\ seen' = NoSeen
        /\ idx' = 0
        /\ talent' = [NoTalent EXCEPT !.talent_type = tbl]
        /\ is_remark_section' = FALSE
        /\ ppc' = IF rows' = 0 THEN "talent_return" ELSE "talent_row"
        /\ UNCHANGED <<record, tbl, talents>>
  /\ UNCHANGED <<exc, markers, incomplete, skill_tables, skills, skill, is_remark,
                 levelRowsFull>>
  /\ UNCHANGED <<poolVars, envVars, procVars, fetchVars, termVars, syncVars, storeVars, pureVars>>

\* rows[idx] turns out to be `row`; it is kept when `keep`
Seeing(row, keep) ==
  IF ~keep THEN seen
  ELSE [th |-> IF row.th THEN seen.th \cup {idx} ELSE seen.th,
        cells |-> IF row.tds # 0 THEN seen.cells \cup {idx} ELSE seen.cells,
        last_text |-> IF idx = rows - 1 THEN row.text ELSE seen.last_text]

\* the cells a row can have: whether it has a th, how many td, whether the
\* text of its first td is non-empty
TalentRowKinds == [th : BOOLEAN, tds : {0, 1, 3}, text : 0..1]

\* one pass of the for loop of parse_single_talent over rows[idx]
parse_single_talent_row ==
  /\ ppc = "talent_row"
  /\ idx < rows
  /\ \E row \in TalentRowKinds :
       /\ row.tds = 0 => row.text = 0
       /\ seen' = Seeing(row, TRUE)
       /\ IF idx = 0 \/ (idx = rows - 2 /\ row.th) \/ row.tds = 0
            THEN \* continue
                 /\ is_remark_section' = (is_remark_section \/ (idx # 0 /\ idx = rows - 2 /\ row.th))
                 /\ idx' = idx + 1
                 /\ ppc' = IF idx + 1 = rows THEN "talent_return" ELSE "talent_row"
                 /\ UNCHANGED <<talent, exc, record, incomplete>>
            ELSE IF is_remark_section
              THEN \* remark_text = clean_text(tds[0]); break
                   /\ talent' = [talent EXCEPT !.remarks = row.text]
                   /\ ppc' = "talent_return"
                   /\ UNCHANGED <<idx, is_remark_section, exc, record, incomplete>>
              ELSE IF row.tds < 3
                THEN \* tds[1] or tds[2]: IndexError
                     /\ ParseRaises("IndexError")
                     /\ incomplete' = incomplete \cup {"talent_row"}
                     /\ UNCHANGED <<talent, idx, is_remark_section>>
                ELSE /\ talent' = [talent EXCEPT
                                     !.talent_name = IF talent.talent_name = 0 THEN row.text ELSE @,
                                     !.details = Append(@, idx)]
                     /\ idx' = idx + 1
                     /\ ppc' = IF idx + 1 = rows THEN "talent_return" ELSE "talent_row"
                     /\ UNCHANGED <<is_remark_section, exc, record, incomplete>>
  /\ UNCHANGED <<markers, tbl, rows, talents, skill_tables, skills, skill, is_remark,
                 levelRowsFull>>
  /\ UNCHANGED <<poolVars, envVars, procVars, fetchVars, termVars, syncVars, storeVars, pureVars>>

\* fault variant of KeepTalent: a talent with either of the two is kept
KeepTalent_either(t) == t.talent_name # 0 \/ t.details # <<>>

\* return talent if talent["talent_name"] and talent["details"] else None
KeepTalent(t) == t.talent_name # 0 /\ t.details # <<>>

\* parse_single_talent returns; `if first_talent: talents.append(...)`, then
\* the second table, or the return of parse_talents after the second
parse_single_talent_return ==
  /\ ppc = "talent_return"
  /\ LET ts == IF KeepTalent(talent) THEN Append(talents, talent.talent_type) ELSE talents
     IN IF tbl = 1
          THEN /\ talents' = ts
               /\ tbl' = 2
               /\ ppc' = "talent_table"
               /\ talent' = NoTalent
               /\ rows' = 0
               /\ idx' = 0
               /\ is_remark_section' = FALSE
               /\ UNCHANGED record
          ELSE parse_talents_return(ts)
  /\ UNCHANGED <<exc, markers, incomplete, skill_tables, skills, skill, is_remark,
                 levelRowsFull>>
  /\ UNCHANGED <<poolVars, envVars, procVars, fetchVars, termVars, syncVars, storeVars, pureVars>>
  /\ seen' = NoSeen

\* the locals of parse_skills are gone once it has returned
SkillLocalsGone ==
  /\ tbl' = 0
  /\ rows' = 0
  /\ idx' = 0
  /\ skill_tables' = 0
  /\ skills' = <<>>
  /\ skill' = NoSkill
  /\ is_remark' = FALSE
  /\ levelRowsFull' = TRUE

\* return skills
parse_skills_return(ss) ==
  /\ record' = record @@ ("skills" :> ss)
  /\ ppc' = "terms"
  /\ SkillLocalsGone

\* parse_skills up to the loop over skill_tables: no heading; a heading
\* outside an h2 (find_parent("h2") is None: AttributeError); a heading in an
\* h2 followed by the wikitables found by the three passes of the loop
parse_skills_header ==
  /\ ppc = "skills"
  /\ \/ /\ parse_skills_return(<<>>)
        /\ UNCHANGED <<markers, incomplete, exc>>
     \/ /\ ParseRaises("AttributeError")
        /\ markers' = markers \cup {"skill_header"}
        /\ incomplete' = incomplete \cup {"skill_header"}
        /\ UNCHANGED <<tbl, rows, idx, skill_tables, skills, skill, is_remark, levelRowsFull>>
     \/ /\ markers' = markers \cup {"skill_header"}
        /\ \E found \in 0..MaxSkillTables :
             IF found = 0
               THEN /\ parse_skills_return(<<>>)
                    /\ incomplete' = incomplete \cup {"skill_header"}
               ELSE /\ skill_tables' = Min(found, 3)
                    /\ tbl' = 1
                    /\ ppc' = "skill_table"
                    /\ UNCHANGED <<record, incomplete, rows, idx, skills, skill, is_remark,
                                   levelRowsFull>>
        /\ UNCHANGED exc
  /\ UNCHANGED <<talents, talent, is_remark_section>>
  /\ UNCHANGED <<poolVars, envVars, procVars, fetchVars, termVars, syncVars, storeVars, pureVars>>
  /\ UNCHANGED seen

\* skill = parse_single_skill(table, idx): rows = table.find_all("tr")
parse_single_skill_start ==
  /\ ppc = "skill_table"
  /\ \E n \in 0..MaxSkillRows : rows' = n
  /\ idx' = 0
  /\ skill' = [NoSkill EXCEPT !.skill_number = tbl]
  /\ is_remark' = FALSE
  /\ levelRowsFull' = TRUE
  /\ ppc' = IF rows' = 0 THEN "skill_return" ELSE "skill_row"
  /\ UNCHANGED <<record, exc, markers, incomplete, tbl, talents, talent,
                 is_remark_section, skill_tables, skills>>
  /\ UNCHANGED <<poolVars, envVars, procVars, fetchVars, termVars, syncVars, storeVars, pureVars>>
  /\ seen' = NoSeen

SkillRowKinds == [th : BOOLEAN, tds : {0, 1, 2, 5}, text : 0..1]

\* fault variant of LevelRow: the two level rows taken one row early
LevelRow_early(i) == i = 7 \/ i = 10

\* if idx == 8 or idx == 11
LevelRow(i) == i = 8 \/ i = 11

\* one pass of the for loop of parse_single_skill over rows[idx]; row.text
\* is the text of the cell the pass reads (the name cell of row 0, the first
\* cell of the remark row)
parse_single_skill_row ==
  /\ ppc = "skill_row"
  /\ idx < rows
  /\ \E row \in SkillRowKinds :
       /\ row.tds = 0 => row.text = 0
       /\ seen' = Seeing(row, idx >= rows - 2)
       /\ levelRowsFull' = (levelRowsFull /\ (LevelRow(idx) => row.tds >= 5))
       /\ IF row.tds # 0 /\ idx # 0 /\ ~LevelRow(idx)
             /\ ~(idx = rows - 2 /\ row.th) /\ is_remark
            THEN \* skill["remark"] = clean_text(tds[0]); break
                 /\ skill' = [skill EXCEPT !.remark = row.text]
                 /\ ppc' = "skill_return"
                 /\ UNCHANGED <<idx, is_remark>>
            ELSE /\ skill' =
                      IF row.tds = 0 THEN skill
                      ELSE IF idx = 0
                        THEN [skill EXCEPT !.skill_name = IF row.tds >= 2 THEN row.text ELSE @]
                      ELSE IF LevelRow(idx) /\ row.tds >= 5
                        THEN [skill EXCEPT !.skill_levels = Append(@, idx)]
                      ELSE skill
                 /\ is_remark' = (is_remark \/ (row.tds # 0 /\ idx # 0 /\ ~LevelRow(idx)
                                                 /\ idx = rows - 2 /\ row.th))
                 /\ idx' = idx + 1
                 /\ ppc' = IF idx + 1 = rows THEN "skill_return" ELSE "skill_row"
  /\ UNCHANGED <<record, exc, markers, incomplete, tbl, rows, talents, talent,
                 is_remark_section, skill_tables, skills>>
  /\ UNCHANGED <<poolVars, envVars, procVars, fetchVars, termVars, syncVars, storeVars, pureVars>>

\* parse_single_skill returns; `if skill["skill_name"]: skills.append(skill)`,
\* then the next table, or the return of parse_skills after the last
parse_single_skill_return ==
  /\ ppc = "skill_return"
  /\ LET ss == IF skill.skill_name # 0 THEN Append(skills, skill.skill_number) ELSE skills
     IN IF tbl < skill_tables
          THEN /\ skills' = ss
               /\ tbl' = tbl + 1
               /\ ppc' = "skill_table"
               /\ UNCHANGED <<record, rows, idx, skill_tables, skill, is_remark, levelRowsFull>>
          ELSE parse_skills_return(ss)
  /\ UNCHANGED <<exc, markers, incomplete, talents, talent, is_remark_section>>
  /\ UNCHANGED <<poolVars, envVars, procVars, fetchVars, termVars, syncVars, storeVars, pureVars>>
  /\ seen' = NoSeen

\* "terms": await self.parse_terms(): [] for a page without candidate spans;
\* otherwise the terms the loop resolved (parse_terms raises nothing: its
\* body is inside try/except Exception)
parse_terms_result ==
  /\ ppc = "terms"
  /\ \E tags \in 0..1 : \E got \in 0..tags :
       /\ record' = record @@ ("terms" :> [i \in 1..got |-> [term_name |-> i]])
       /\ markers' = IF tags = 0 THEN markers ELSE markers \cup {"term_tags"}
  /\ ppc' = "done"
  /\ UNCHANGED <<exc, incomplete, tbl, rows, idx, talents, talent, is_remark_section,
                 skill_tables, skills, skill, is_remark, levelRowsFull>>
  /\ UNCHANGED <<poolVars, envVars, procVars, fetchVars, termVars, syncVars, storeVars, pureVars>>
  /\ UNCHANGED seen

\* parse_all on a loaded page
InitParse ==
  /\ CoreIdle
  /\ SyncIdle
  /\ StoreIdle
  /\ PureIdle
  /\ seen = NoSeen
  /\ ppc = "chara"
  /\ record = NoRecord
  /\ exc = "none"
  /\ markers = {}
  /\ incomplete = {}
  /\ tbl = 0
  /\ rows = 0
  /\ idx = 0
  /\ talents = <<>>
  /\ talent = NoTalent
  /\ is_remark_section = FALSE
  /\ skill_tables = 0
  /\ skills = <<>>
  /\ skill = NoSkill
  /\ is_remark = FALSE
  /\ levelRowsFull = TRUE

NextParse ==
  \/ parse_chara_result
  \/ parse_attrs_result
  \/ parse_talents_header
  \/ parse_talents_table
  \/ parse_single_talent_row
  \/ parse_single_talent_return
  \/ parse_skills_header
  \/ parse_single_skill_start
  \/ parse_single_skill_row
  \/ parse_single_skill_return
  \/ parse_terms_result

SpecParse == InitParse /\ [][NextParse]_vars

\* ------------------------------------- main.py: batch_sync_operators and
\* sync_operator_detail_to_db.  The calls of init_shared_browser,
\* close_shared_browser and parser.run() are the steps modelled above; the
\* batch waits at bpc for the call to come back (pc[W] = "idle", `last` says
\* which call it was).  DBHandler.is_connected, DBHandler.reconnect and
\* DBHandler.update_operator_base are called by main.py and defined nowhere
\* in the sources at hand: they answer True or False, or raise.

\* what db.is_connected() and db.reconnect() at the head of the loop body
\* can come to
ConnectionChecks == {"connected", "reconnected", "reconnect_failed", "raises"}

\* what op_db.update_operator_base(base_info) can come to: a true value, a
\* false one, an exception
update_operator_base == {"updated", "not_updated", "raises"}

BatchFrame ==
  UNCHANGED <<poolVars, envVars, pc, op, inExcept, myId, handed, termVars,
              parseVars, storeVars, pureVars, abandon>>

\* batch_sync_operators raises
BatchRaises ==
  /\ batch_result' = [kind |-> "raised", value |-> 0]
  /\ bpc' = "done"

\* return n
BatchReturns(n) ==
  /\ batch_result' = [kind |-> "returned", value |-> n]
  /\ bpc' = "done"

\* if not operator_names: return 0; otherwise on to init_shared_browser
\* (valid_names can be empty with operator_names holding blank names only)
batch_sync_operators ==
  /\ bpc = "start"
  /\ \/ /\ nnames = 0
        /\ BatchReturns(0)
     \/ /\ bpc' = "init"
        /\ UNCHANGED batch_result
  /\ UNCHANGED <<nnames, item, success_count, operations, opIdx, success, allWritten,
                 attempted, synced>>
  /\ UNCHANGED <<last, fetchVars>>
  /\ BatchFrame

\* await OperatorDetailParser.init_shared_browser()
batch_init_browser ==
  /\ bpc = "init"
  /\ last.op = "none"
  /\ CallAcquire(W)

\* init_shared_browser has come back: its exception leaves the batch;
\* otherwise `if not db.connect(): await close_shared_browser(); return 0`,
\* or the loop starts
batch_connect ==
  /\ bpc = "init"
  /\ pc[W] = "idle"
  /\ last.op = "acquire"
  /\ last' = NoCall
  /\ IF last.raised
       THEN /\ BatchRaises
            /\ UNCHANGED item
       ELSE \/ /\ bpc' = "close_early"
               /\ UNCHANGED <<batch_result, item>>
            \/ /\ item' = 1
               /\ bpc' = IF nnames = 0 THEN "close" ELSE "loop"
               /\ UNCHANGED batch_result
  /\ UNCHANGED <<nnames, success_count, operations, opIdx, success, allWritten,
                 attempted, synced>>
  /\ UNCHANGED fetchVars
  /\ BatchFrame

\* the body of the for loop up to parser.run():
\*   if not db.is_connected(): if not db.reconnect(): continue
\*   (an exception of either: except Exception: continue)
\*   sync_operator_detail_to_db: if ... not db.connection.is_connected(): return False
batch_loop ==
  /\ bpc = "loop"
  /\ attempted' = attempted \cup {item}
  /\ \E db \in ConnectionChecks :
       IF db \in {"connected", "reconnected"}
         THEN \E alive \in BOOLEAN : bpc' = IF alive THEN "fetch" ELSE "finally"
         ELSE bpc' = "finally"
  /\ UNCHANGED <<nnames, item, success_count, batch_result, operations, opIdx, success,
                 allWritten, synced>>
  /\ UNCHANGED <<last, fetchVars>>
  /\ BatchFrame

\* parser = OperatorDetailParser(operator_name); operator_data = await parser.run()
sync_run ==
  /\ bpc = "fetch"
  /\ last.op = "none"
  /\ run_start

\* run has come back.  `if not operator_data: return False`; otherwise the
\* operations list: base info, attributes (attr_list has the five tiers of
\* base_attributes), and talents, skills, term relations if the record has
\* any.  The parser is not used again.
sync_parsed ==
  /\ bpc = "fetch"
  /\ pc[W] = "idle"
  /\ last.op = "run"
  /\ last' = NoCall
  /\ IF runResult = "none"
       THEN /\ bpc' = "finally"
            /\ UNCHANGED <<operations, opIdx, success, allWritten>>
       ELSE /\ \E full \in BOOLEAN :
                 operations' = IF full THEN <<"base", "attrs", "talents", "skills", "terms">>
                                       ELSE <<"base", "attrs">>
            /\ opIdx' = 1
            /\ success' = TRUE
            /\ allWritten' = TRUE
            /\ bpc' = "write"
  /\ attempt' = 0
  /\ snap' = <<>>
  /\ soup' = <<>>
  /\ extractLog' = <<>>
  /\ runResult' = "none"
  /\ failed_attempts' = 0
  /\ UNCHANGED <<page, openTabs>>
  /\ UNCHANGED <<nnames, item, success_count, batch_result, attempted, synced>>
  /\ BatchFrame

\* what one pass of `for op_name, op_func in operations` can meet: op_db.connect()
\* fails; for base info update_operator_base succeeds, or it does not and
\* insert_operator_base returns an id ("inserted") or None ("insert_failed");
\* for the others the insert returns True ("ok") or False ("failed"); an
\* exception
WriteOutcomes(o) ==
  IF o = "base"
    THEN {"connect_failed"} \cup (update_operator_base \ {"not_updated"})
           \cup (IF "not_updated" \in update_operator_base
                   THEN {"inserted", "insert_failed"} ELSE {})
    ELSE {"connect_failed", "ok", "failed", "raises"}

\* the logical write reached the store
Written(res) == res \in {"updated", "inserted", "ok"}

\* whether the pass leaves `success` alone: connect failure, `result is
\* False` and an exception set it to False; update_base_info returns True
\* whatever insert_operator_base returned
KeepsSuccess(res) == res \notin {"connect_failed", "failed", "raises"}

\* one pass of the operations loop
sync_write ==
  /\ bpc = "write"
  /\ opIdx <= Len(operations)
  /\ \E res \in WriteOutcomes(operations[opIdx]) :
       /\ success' = (success /\ KeepsSuccess(res))
       /\ allWritten' = (allWritten /\ Written(res))
  /\ opIdx' = opIdx + 1
  /\ UNCHANGED <<bpc, nnames, item, success_count, batch_result, operations, attempted,
                 synced>>
  /\ UNCHANGED <<last, fetchVars>>
  /\ BatchFrame

\* return success; in the batch: if result: success_count += 1
sync_return ==
  /\ bpc = "write"
  /\ opIdx > Len(operations)
  /\ success_count' = IF success THEN success_count + 1 ELSE success_count
  /\ synced' = IF success THEN synced \cup {item} ELSE synced
  /\ bpc' = "finally"
  /\ operations' = <<>>
  /\ opIdx' = 0
  /\ success' = FALSE
  /\ allWritten' = TRUE
  /\ UNCHANGED <<nnames, item, batch_result, attempted>>
  /\ UNCHANGED <<last, fetchVars>>
  /\ BatchFrame

\* fault variant of batch_finally: no pause before the next name
batch_finally_no_sleep ==
  /\ bpc = "finally"
  /\ IF item < nnames
       THEN /\ item' = item + 1
            /\ bpc' = "loop"
       ELSE /\ bpc' = "close"
            /\ UNCHANGED item
  /\ UNCHANGED <<nnames, success_count, batch_result, operations, opIdx, success,
                 allWritten, attempted, synced>>
  /\ UNCHANGED <<last, fetchVars>>
  /\ BatchFrame

\* finally: if i < len(valid_names): await asyncio.sleep(3) -- reached from
\* the end of the try block, from `continue` and from the except clause;
\* after the last name the loop is left
batch_finally ==
  /\ bpc = "finally"
  /\ bpc' = IF item < nnames THEN "sleep" ELSE "close"
  /\ UNCHANGED <<nnames, item, success_count, batch_result, operations, opIdx, success,
                 allWritten, attempted, synced>>
  /\ UNCHANGED <<last, fetchVars>>
  /\ BatchFrame

\* the sleep is over: the next name
batch_sleep ==
  /\ bpc = "sleep"
  /\ item' = item + 1
  /\ bpc' = "loop"
  /\ UNCHANGED <<nnames, success_count, batch_result, operations, opIdx, success,
                 allWritten, attempted, synced>>
  /\ UNCHANGED <<last, fetchVars>>
  /\ BatchFrame

\* await OperatorDetailParser.close_shared_browser()
batch_close_browser ==
  /\ bpc \in {"close", "close_early"}
  /\ last.op = "none"
  /\ CallRelease(W)

\* close_shared_browser has come back: its exception leaves the batch;
\* otherwise `return 0` (no connection) or db.close(); return success_count
batch_return ==
  /\ bpc \in {"close", "close_early"}
  /\ pc[W] = "idle"
  /\ last.op = "release"
  /\ last' = NoCall
  /\ IF last.raised
       THEN BatchRaises
       ELSE BatchReturns(IF bpc = "close" THEN success_count ELSE 0)
  /\ UNCHANGED <<nnames, item, success_count, operations, opIdx, success, allWritten,
                 attempted, synced>>
  /\ UNCHANGED fetchVars
  /\ BatchFrame

\* one batch over 0..NSubjects names, started with the pool not launched
InitBatch ==
  /\ CoreIdle
  /\ ParseIdle
  /\ StoreIdle
  /\ PureIdle
  /\ bpc = "start"
  /\ nnames \in 0..NSubjects
  /\ item = 0
  /\ success_count = 0
  /\ batch_result = NoResult
  /\ operations = <<>>
  /\ opIdx = 0
  /\ success = FALSE
  /\ allWritten = TRUE
  /\ attempted = {}
  /\ synced = {}
  /\ abandon = FALSE

\* the caller decides, while the batch runs, that it wants it abandoned;
\* batch_sync_operators takes no argument and reads no state that could
\* tell it
caller_abandons ==
  /\ bpc \in {"loop", "fetch", "write", "finally", "sleep"}
  /\ ~abandon
  /\ abandon' = TRUE
  /\ UNCHANGED <<bpc, nnames, item, success_count, batch_result, operations, opIdx,
                 success, allWritten, attempted, synced>>
  /\ UNCHANGED <<last, fetchVars>>
  /\ UNCHANGED <<poolVars, envVars, pc, op, inExcept, myId, handed, termVars,
                 parseVars, storeVars, pureVars>>

NextBatch ==
  \/ batch_sync_operators
  \/ batch_init_browser
  \/ batch_connect
  \/ batch_loop
  \/ sync_run
  \/ sync_parsed
  \/ sync_write
  \/ sync_return
  \/ batch_finally
  \/ batch_sleep
  \/ batch_close_browser
  \/ batch_return
  \/ caller_abandons
  \/ PoolStep(W)
  \/ FetchStep
  \/ TermStep

SpecBatch == InitBatch /\ [][NextBatch]_vars

\* ------------------------------------------ db_handler.py: replace writes
\* insert_operator_attr, insert_operator_talent, insert_operator_skill and
\* insert_operator_term_relation, statement by statement, on a connection of
\* their own: `work` is what the transaction sees, `store` what is committed.
\* A row is [id, owner, v, by, of]: owner is name_cn in operator_attr,
\* operator_talent, operator_skill and operator_term_relation, and talent_id /
\* skill_id in operator_talent_detail / operator_skill_level; by and of (the
\* call and the subject that wrote the row) are history, not columns.
\* The schema is not part of the sources: the child tables reference their
\* parent without a constraint, with a restricting one or with a cascading one.
FkModes == {"none", "restrict", "cascade"}

ParentTable(o) ==
  IF o = "attr" THEN "attr" ELSE IF o = "talent" THEN "talent"
  ELSE IF o = "skill" THEN "skill" ELSE "rel"
ChildTable(o) ==
  IF o = "talent" THEN "talent_detail" ELSE IF o = "skill" THEN "skill_level" ELSE "none"

\* the lists a write is called with: entries [v, kids], kids the number of
\* details / skill_levels of the entry (none for attributes and relations)
Entries(o) == [v : 1..NVals, kids : IF ChildTable(o) = "none" THEN {0} ELSE 0..MaxKids]
Lists(o) == UNION {[1..n -> Entries(o)] : n \in 1..MaxItems}

StoreFrame ==
  UNCHANGED <<poolVars, envVars, procVars, fetchVars, termVars, parseVars, syncVars,
              pureVars>>

\* op_db = DBHandler(); op_db.connect(); op_func(op_db):
\* cursor = self.connection.cursor()
store_call ==
  /\ wpc = "idle"
  /\ calls < MaxCalls
  /\ \E o \in WriteOps : \E n \in 1..NSubjects : \E d \in Lists(o) :
       call' = [op |-> o, name |-> n, data |-> d]
  /\ calls' = calls + 1
  /\ work' = store
  /\ wpc' = "delete"
  /\ UNCHANGED <<store, fk, ret, nextRow, lastOk>>
  /\ StoreFrame

\* the handler on a connection that commits each statement as it runs
Rollback_autocommit ==
  /\ store' = work
  /\ UNCHANGED work
  /\ ret' = FALSE
  /\ wpc' = "idle"
  /\ UNCHANGED lastOk

\* except Error: self.connection.rollback(); return False
Rollback ==
  /\ work' = store
  /\ ret' = FALSE
  /\ wpc' = "idle"
  /\ UNCHANGED <<store, lastOk>>

\* DELETE FROM <parent> WHERE name_cn = %s, by the constraint of the schema
DeleteParents(w, o, n) ==
  LET gone == {r \in w[ParentTable(o)] : r.owner = n}
      ids == {r.id : r \in gone}
  IN [t \in Tables |->
        IF t = ParentTable(o) THEN w[t] \ gone
        ELSE IF t = ChildTable(o) /\ fk = "cascade"
          THEN {c \in w[t] : c.owner \notin ids}
          ELSE w[t]]

\* DELETE FROM <child> WHERE <parent>_id IN (SELECT id FROM <parent> WHERE name_cn = %s)
DeleteChildren(w, o, n) ==
  LET ids == {r.id : r \in {p \in w[ParentTable(o)] : p.owner = n}}
  IN [t \in Tables |->
        IF t = ChildTable(o) THEN {c \in w[t] : c.owner \notin ids} ELSE w[t]]


\* the DELETE statements of a write, in the order they are executed
Deletes(w, o, n) ==
  IF ChildTable(o) = "none" THEN DeleteParents(w, o, n)
  ELSE DeleteChildren(DeleteParents(w, o, n), o, n)

\* the first DELETE is refused when a restricting constraint finds child rows
Refused(w, o, n) ==
  /\ fk = "restrict"
  /\ ChildTable(o) # "none"
  /\ \E c \in w[ChildTable(o)] : \E p \in w[ParentTable(o)] : p.owner = n /\ c.owner = p.id

\* the DELETE statements; any statement can end in an Error
write_delete ==
  /\ wpc = "delete"
  /\ \/ /\ ~Refused(work, call.op, call.name)
        /\ work' = Deletes(work, call.op, call.name)
        /\ wpc' = "insert"
        /\ UNCHANGED <<store, ret, lastOk>>
     \/ Rollback
  /\ UNCHANGED <<fk, call, calls, nextRow>>
  /\ StoreFrame

\* rows before entry k of the list: one per entry, then one per child
KidsBefore(d, k) ==
  LET RECURSIVE Sum(_)
      Sum(j) == IF j = 0 THEN 0 ELSE Sum(j - 1) + d[j].kids
  IN Sum(k - 1)

\* the INSERT statements: one parent row per entry (cursor.lastrowid is its
\* id), then executemany over the child rows
Inserts(w, o, n, d, first, c) ==
  LET parents == {[id |-> first + k - 1, owner |-> n, v |-> d[k].v, by |-> c, of |-> n] :
                    k \in 1..Len(d)}
      kids == {[id |-> first + Len(d) + KidsBefore(d, e[1]) + e[2] - 1,
                owner |-> first + e[1] - 1, v |-> e[2], by |-> c, of |-> n] :
                 e \in {x \in (1..Len(d)) \X (1..MaxKids) : x[2] <= d[x[1]].kids}}
  IN [t \in Tables |->
        IF t = ParentTable(o) THEN w[t] \cup parents
        ELSE IF t = ChildTable(o) THEN w[t] \cup kids
        ELSE w[t]]

RowsWritten(d) == Len(d) + KidsBefore(d, Len(d) + 1)

write_insert ==
  /\ wpc = "insert"
  /\ \/ /\ work' = Inserts(work, call.op, call.name, call.data, nextRow, calls)
        /\ nextRow' = nextRow + RowsWritten(call.data)
        /\ wpc' = "commit"
        /\ UNCHANGED <<store, ret, lastOk>>
     \/ /\ Rollback
        /\ UNCHANGED nextRow
  /\ UNCHANGED <<fk, call, calls>>
  /\ StoreFrame

\* self.connection.commit(); return True
write_commit ==
  /\ wpc = "commit"
  /\ \/ /\ store' = work
        /\ ret' = TRUE
        /\ wpc' = "idle"
        /\ lastOk' = [lastOk EXCEPT ![call.op][call.name] = call.data]
        /\ UNCHANGED work
     \/ Rollback
  /\ UNCHANGED <<fk, call, calls, nextRow>>
  /\ StoreFrame

\* an empty store under one of the schemas
InitStore ==
  /\ CoreIdle
  /\ ParseIdle
  /\ SyncIdle
  /\ PureIdle
  /\ store = EmptyStore
  /\ work = EmptyStore
  /\ fk \in FkModes
  /\ wpc = "idle"
  /\ call = NoWrite
  /\ ret = FALSE
  /\ calls = 0
  /\ nextRow = 1
  /\ lastOk = [o \in WriteOps |-> [n \in 1..NSubjects |-> NoData]]

NextStore ==
  \/ store_call
  \/ write_delete
  \/ write_insert
  \/ write_commit

SpecStore == InitStore /\ [][NextStore]_vars

\* ------------------------------------------------ utils.py: clean_text
\* Text is a sequence of characters: a letter, the two kinds of whitespace a
\* text holds (blank, line feed), and "+" for the marker "（+）" that
\* clean_text removes as one piece.
WS == {" ", "LF"}
Chars == {"a", " ", "+"}
Strs(n) == UNION {[1..k -> Chars] : k \in 0..n}

\* a <br> child of a node
BR == <<"br">>

\* the arguments of clean_text: None, a str, a bs4 element with its children
\* (text nodes, which are not empty, and <br> elements)
Tags ==
  {NoTag} \cup {[kind |-> "str", v |-> x] : x \in Strs(MaxStr)}
          \cup {[kind |-> "node", v |-> c] :
                  c \in UNION {[1..k -> (Strs(MaxPiece) \ {<<>>}) \cup {BR}] :
                                 k \in 0..MaxPieces}}

\* str.strip()
RECURSIVE lstrip(_)
lstrip(s) == IF s # <<>> /\ Head(s) \in WS THEN lstrip(Tail(s)) ELSE s
RECURSIVE rstrip(_)
rstrip(s) == IF s # <<>> /\ s[Len(s)] \in WS THEN rstrip(SubSeq(s, 1, Len(s) - 1)) ELSE s
strip(s) == rstrip(lstrip(s))

\* re.sub(r"\s+", " ", text)
RECURSIVE collapse(_)
collapse(s) ==
  IF s = <<>> THEN <<>>
  ELSE IF Head(s) \in WS THEN <<" ">> \o collapse(lstrip(s))
  ELSE <<Head(s)>> \o collapse(Tail(s))

\* text.replace("（+）", "")
remove_plus(s) == SelectSeq(s, LAMBDA c : c # "+")

\* tag.get_text(strip=True, separator=sep): the text nodes of the element,
\* each stripped, the empty ones left out, joined by sep; a <br> has no text
RECURSIVE join(_, _)
join(ps, sep) ==
  IF ps = <<>> THEN <<>>
  ELSE IF Len(ps) = 1 THEN ps[1]
  ELSE ps[1] \o sep \o join(Tail(ps), sep)
get_text(node, sep) ==
  LET strings == SelectSeq(node, LAMBDA p : p # BR)
      stripped == [i \in 1..Len(strings) |-> strip(strings[i])]
  IN join(SelectSeq(stripped, LAMBDA p : p # <<>>), sep)

\* clean_text(tag, replace_plus, handle_br): `if not tag` is true of None and
\* of "", never of an element
clean_text(t, rp, hb) ==
  IF t.kind = "none" \/ (t.kind = "str" /\ t.v = <<>>) THEN <<>>
  ELSE IF t.kind = "str"
    THEN LET x == strip(collapse(strip(t.v)))
         IN IF rp THEN strip(remove_plus(x)) ELSE x
  ELSE IF hb
    THEN \* br.replace_with("\n") for every br, then get_text with "\n"
         LET n == [i \in 1..Len(t.v) |-> IF t.v[i] = BR THEN <<"LF">> ELSE t.v[i]]
         IN strip(collapse(get_text(n, <<"LF">>)))
  ELSE LET x == get_text(t.v, <<>>)
       IN IF rp THEN strip(remove_plus(x)) ELSE x

PureFrame ==
  UNCHANGED <<poolVars, envVars, procVars, fetchVars, termVars, parseVars, syncVars,
              storeVars>>

\* one call of clean_text
clean_text_call ==
  /\ tpc = "called"
  /\ text' = clean_text(tag, replace_plus, handle_br)
  /\ tpc' = "returned"
  /\ UNCHANGED <<tag, replace_plus, handle_br, op_divs, ops_list, rpc, span, epc, entry>>
  /\ PureFrame

InitText ==
  /\ CoreIdle
  /\ ParseIdle
  /\ SyncIdle
  /\ StoreIdle
  /\ RosterIdle
  /\ EntryIdle
  /\ tag \in Tags
  /\ replace_plus \in BOOLEAN
  /\ handle_br \in BOOLEAN
  /\ tpc = "called"
  /\ text = <<>>

NextText == clean_text_call

SpecText == InitText /\ [][NextText]_vars

\* ------------------------- operators_list_get.py: OperatorListCrawler.parse
\* (get_operator.parse_ops is the same code)
DigitChars == <<"0", "1", "2", "3", "4", "5", "6", "7", "8", "9">>
DigitVal(c) == (CHOOSE i \in 1..10 : DigitChars[i] = c) - 1
IsDigit(c) == \E i \in 1..10 : DigitChars[i] = c

\* the data-rarity attribute of an op_div: not there, or its text
Missing == <<"missing">>
RawAttrs ==
  {Missing, <<>>} \cup
  UNION {{<<c>>, <<" ", c>>, <<c, " ">>} : c \in {DigitChars[i] : i \in 1..10} \cup {"x"}}

\* op_div.get(attr, '').strip()
raw_data(attr) == IF attr = Missing THEN <<>> ELSE strip(attr)

\* int(text): defined on digits only (ValueError otherwise)
RECURSIVE int(_)
int(t) ==
  IF Len(t) = 1 THEN DigitVal(t[1])
  ELSE 10 * int(SubSeq(t, 1, Len(t) - 1)) + DigitVal(t[Len(t)])
IsInt(t) == t # <<>> /\ \A i \in 1..Len(t) : IsDigit(t[i])

\* str(n) of a natural number below 100
str(n) ==
  IF n < 10 THEN <<DigitChars[n + 1]>>
  ELSE <<DigitChars[(n \div 10) + 1], DigitChars[(n % 10) + 1]>>

\* fault variant of rarity: the raw value is passed on as it is
rarity_raw(raw_rarity) == str(int(raw_rarity))

\* str(int(raw_rarity) + 1)
rarity(raw_rarity) == str(int(raw_rarity) + 1)

\* data_container = soup.select_one('div#filter-data'): RuntimeError
\* without it, otherwise the loop over its div children
parse_start ==
  /\ rpc = "start"
  /\ \/ op_divs = <<>> /\ rpc' = "raised"
     \/ rpc' = "loop"
  /\ UNCHANGED <<op_divs, ops_list, tag, replace_plus, handle_br, tpc, text, span, epc, entry>>
  /\ PureFrame

\* one pass of the loop: raw_rarity = raw_data['data-rarity'] or '0', then
\* the rarity of op_data; after the last pass `return ops_list`
parse_op_div ==
  /\ rpc = "loop"
  /\ IF Len(ops_list) = Len(op_divs)
       THEN rpc' = "returned" /\ UNCHANGED ops_list
       ELSE LET got == raw_data(op_divs[Len(ops_list) + 1])
                raw_rarity == IF got = <<>> THEN <<"0">> ELSE got
            IN IF IsInt(raw_rarity)
                 THEN /\ ops_list' = Append(ops_list, rarity(raw_rarity))
                      /\ UNCHANGED rpc
                 ELSE \* ValueError leaves parse
                      /\ rpc' = "raised"
                      /\ UNCHANGED ops_list
  /\ UNCHANGED <<op_divs, tag, replace_plus, handle_br, tpc, text, span, epc, entry>>
  /\ PureFrame

InitRoster ==
  /\ CoreIdle
  /\ ParseIdle
  /\ SyncIdle
  /\ StoreIdle
  /\ TextIdle
  /\ EntryIdle
  /\ op_divs \in UNION {[1..n -> RawAttrs] : n \in 0..MaxRoster}
  /\ ops_list = <<>>
  /\ rpc = "start"

NextRoster == parse_start \/ parse_op_div

SpecRoster == InitRoster /\ [][NextRoster]_vars

\* -------------------------- parse_terms: what one tooltip span comes to
\* PLAYWRIGHT_CONFIG["term_filter"]
term_min_length == 2
desc_min_length == 5
\* longest span text, strong text and description of a tooltip
MaxName == 3
MaxDesc == 6

\* texts of letters, digits and the character of the label "无"
TermTexts(n) == UNION {[1..k -> {"a", "1", "none"}] : k \in 0..n}
\* term_type = "无"
NoType == <<"none">>

\* str.isdigit()
isdigit(t) == t # <<>> /\ \A i \in 1..Len(t) : t[i] = "1"

\* fault variant of term_tag_filter: numbers are let through
term_tag_filter_numbers(t) == Len(t) >= term_min_length

\* the lambda of content_div.find_all, on the cleaned text of a span with a
\* mc-tooltips class
term_tag_filter(t) == Len(t) >= term_min_length /\ ~isdigit(t)

\* step 2: the span is among term_tags or not
parse_terms_find_all ==
  /\ epc = "span"
  /\ epc' = IF term_tag_filter(span) THEN "term_tag" ELSE "filtered"
  /\ UNCHANGED <<span, entry, tag, replace_plus, handle_br, tpc, text, op_divs, ops_list, rpc>>
  /\ PureFrame

\* one pass of the loop for the span: term_name, the hover, the tooltip
\* (strong is the joined text of its strong elements, desc the length of
\* formatted_desc), the two filters and the append; an exception, a missing
\* tooltip and a short description skip the span (term_name is not empty: the
\* lambda wanted term_min_length characters)
parse_terms_pass ==
  /\ epc = "term_tag"
  /\ \E tip_found \in BOOLEAN, raises \in BOOLEAN, strong \in TermTexts(MaxName),
        desc \in 0..MaxDesc :
       LET joined == IF strong # <<>> THEN strong ELSE NoType
           term_type == IF joined = span THEN NoType ELSE joined
       IN IF raises \/ ~tip_found \/ desc < desc_min_length
            THEN /\ epc' = "skipped"
                 /\ UNCHANGED entry
            ELSE /\ entry' = [term_name |-> span, term_type |-> term_type,
                              term_description |-> desc]
                 /\ epc' = "appended"
  /\ UNCHANGED <<span, tag, replace_plus, handle_br, tpc, text, op_divs, ops_list, rpc>>
  /\ PureFrame

InitTermEntry ==
  /\ CoreIdle
  /\ ParseIdle
  /\ SyncIdle
  /\ StoreIdle
  /\ TextIdle
  /\ RosterIdle
  /\ span \in TermTexts(MaxName)
  /\ epc = "span"
  /\ entry = NoEntry

NextTermEntry == parse_terms_find_all \/ parse_terms_pass

SpecTermEntry == InitTermEntry /\ [][NextTermEntry]_vars

\* =============================================================== claims
IsPrefix(s, t) == Len(s) <= Len(t) /\ \A i \in 1..Len(s) : s[i] = t[i]

\* C1: with several callers inside init_shared_browser at once, a second
\* browser is never launched: at most one browser process is alive at any time.
C1_SingleLaunchUnderConcurrency == Cardinality(liveBrowsers) <= 1

\* C2: close_shared_browser always leaves the pool uninitialized and never
\* raises: once a release_all has finished, the flag is false and the context,
\* browser and driver handles are cleared, whatever the close steps did.
C2_ReleaseAlwaysResets ==
  (pc[W] = "idle" /\ last.op = "release") =>
    /\ ~last.raised
    /\ ~browser_initialized
    /\ shared_context = None
    /\ shared_browser = None
    /\ shared_playwright = None

\* C3: a context whose browser has reported a crash is never handed out again:
\* whenever _init_browser_page is about to open a page, the context it got
\* from init_shared_browser is not a crashed one.
C3_CrashedContextNotReused ==
  pc[W] = "ibp_new_page" => handed[W] \notin crashedCtx

\* C4: on every exit of run the tab of the fetch is closed and self.page is
\* None, and no step of run changes an initialized pool: the flag stays true
\* and the three handles stay what they were.
C4_ExitState ==
  (pc[W] = "idle" /\ last.op = "run") => (page = None /\ openTabs = 0)
C4_RunKeepsPool ==
  (op[W] = "run" /\ browser_initialized) =>
     (browser_initialized' /\ UNCHANGED <<shared_playwright, shared_browser, shared_context>>)
C5_ThreeAttempts ==
  /\ attempt + 1 <= 3
  /\ failed_attempts \in {attempt, attempt + 1}
  /\ failed_attempts = 3 =>
       /\ runResult = "none"
       /\ extractLog = <<>>
       /\ soup = <<>>
       /\ op[W] = "run" => pc[W] = "run_finally"

\* C5 witness: the third attempt has failed and run has returned.
C5_Witness ==
  /\ pc[W] = "idle" /\ last.op = "run"
  /\ attempt = 2 /\ failed_attempts = 3 /\ runResult = "none"

\* C6: for one sequential caller at most one browser+context pair is alive,
\* and init_shared_browser called on a ready pool launches nothing, changes
\* no handle and returns the stored context.
C6_OnePair == Cardinality(liveContexts) <= 1 /\ liveContexts \subseteq liveBrowsers
C6_ReadyAcquire ==
  (pc[W] = "isb_check" /\ browser_initialized) =>
     /\ handed'[W] = shared_context
     /\ UNCHANGED <<poolVars, envVars>>
     /\ pc'[W] \in {"idle", "ibp_new_page"}
C6_AcquireIdempotent == []C6_OnePair /\ [][C6_ReadyAcquire]_vars

\* C6 witness: init_shared_browser is called again right after an acquire
\* that succeeded, on a ready pool with a live context.
C6_Witness ==
  /\ pc[W] = "isb_check" /\ op[W] = "acquire"
  /\ last.op = "acquire" /\ ~last.raised
  /\ browser_initialized /\ shared_context \in liveContexts

\* C7 as stated: the extractors run in the order attributes, trait/branch,
\* talents, skills, glossary terms.
C7_OrderAttrsFirst ==
  IsPrefix(extractLog, <<"attrs", "chara", "talents", "skills", "terms">>)

\* C7 amended: the extractors run in the order trait/branch, attributes,
\* talents, skills, glossary terms.
C7_OrderTraitFirst ==
  IsPrefix(extractLog, <<"chara", "attrs", "talents", "skills", "terms">>)

\* C7 witness: all five extractors have run and run returns the record.
C7_Witness ==
  /\ extractLog = <<"chara", "attrs", "talents", "skills", "terms">>
  /\ pc[W] = "run_finally" /\ runResult = "record"

\* C8: no extractor modifies the parsed-markup snapshot: self.soup always
\* equals the markup as it was fetched.
C8_SnapshotUnchanged == soup # <<>> => soup = snap

\* C9: in parse_terms a timeout, an AttributeError or another non-crash
\* exception on a candidate leaves terms unchanged and the loop goes on with
\* the next candidate; a candidate stops the loop only by a crash, which
\* leaves terms unchanged too, and what is then returned, with no further
\* hover, is exactly terms.
C9_FailureStep ==
  /\ (pc[W] \in {"pt_hover", "pt_tooltip"} /\ outcome' \in NonCrashKinds) =>
        (terms' = terms /\ pc'[W] = "pt_loop" /\ termIdx' = termIdx + 1)
  /\ (pc[W] \in {"pt_hover", "pt_tooltip"} /\ outcome' = "crash") =>
        (terms' = terms /\ hovered' = hovered /\ pc'[W] = "pt_final")
  /\ (pc[W] \in {"pt_hover", "pt_tooltip", "pt_mouse"} /\ pc'[W] = "pt_final") =>
        outcome' = "crash"
  /\ pc[W] = "pt_final" => (ptResult' = terms /\ pc'[W] = "parse_all")
C9_CandidateFailures == [][C9_FailureStep]_vars

\* C9 witness: the surface crashed after a term was accepted and another
\* candidate had failed without a crash.
C9_Witness ==
  /\ pc[W] = "pt_final" /\ outcome = "crash"
  /\ Len(terms) >= 1 /\ processed_terms > Len(terms)

\* C10: one call of parse_terms hovers at most 20 candidates.
C10_HoverCap == hovered <= TermCap

\* C11: between two consecutive hovers of one parse_terms call the pointer
\* has been moved away from the element hovered before: whenever a candidate
\* is about to be hovered, the pointer does not rest on an earlier one.
C11_PointerAwayBeforeHover == pc[W] = "pt_hover" => ~pointerOn

\* C12: terms and the list returned never hold two entries of one term_name;
\* an entry, once appended, is never replaced (the first candidate resolved
\* under a name supplies it), the list returned is terms, and a candidate
\* whose text is in term_seen is skipped with no hover.
Distinct(ts) ==
  \A i, j \in 1..Len(ts) : ts[i].term_name = ts[j].term_name => i = j
C12_Unique ==
  /\ Distinct(terms)
  /\ Distinct(ptResult)
  /\ pc[W] \in {"pt_hover", "pt_tooltip"} => term_name \notin TermSeen
C12_Step ==
  /\ pc[W] # "pt_final" => IsPrefix(terms, terms')
  /\ pc[W] = "pt_final" => ptResult' = terms
  /\ hovered' = hovered + 1 => term_name \notin TermSeen
  /\ (pc[W] = "pt_loop" /\ pc'[W] = "pt_loop" /\ outcome' = "duplicate") =>
        (hovered' = hovered /\ terms' = terms /\ termIdx' = termIdx + 1)
C12_FirstResolvedWins == []C12_Unique /\ [][C12_Step]_vars

\* C12 witness: a candidate with the text of an accepted term has just been
\* skipped, after as many hovers as there were candidates before it.
C12_Witness ==
  /\ pc[W] = "pt_loop" /\ outcome = "duplicate"
  /\ Len(terms) >= 1 /\ termIdx >= 3 /\ hovered = termIdx - 2

\* C13: when the rows 8 and 11 of a skill table (as far as it has them) have
\* at least 5 cells, the number of skill_levels follows from the row count
\* alone: 0 up to 8 rows, 1 for 9 to 11 rows, 2 from 12 rows on; the loop is
\* left early only where no level row follows, and no row raises.
C13_LevelCount ==
  (ppc = "skill_return" /\ levelRowsFull) =>
     Len(skill.skill_levels) = (IF rows <= 8 THEN 0 ELSE IF rows <= 11 THEN 1 ELSE 2)
C13_Step ==
  /\ (ppc = "skill_row" /\ ppc' = "skill_return" /\ idx' = idx) =>
        ~\E j \in (idx + 1)..(rows - 1) : j = 8 \/ j = 11
  /\ ppc \in {"skill_table", "skill_row", "skill_return"} => exc' = "none"
C13_LevelsByRowCount == []C13_LevelCount /\ [][C13_Step]_vars

\* C13 witness: a table of 11 rows with a remarks header in row 9 has been
\* walked to its remark in row 10, with the level of row 8 taken.
C13_Witness ==
  /\ ppc = "skill_return" /\ rows = 11 /\ idx = 10 /\ is_remark
  /\ skill.skill_levels = <<8>> /\ levelRowsFull

\* a talent leaves parse_single_talent and is appended to talents
TalentEmitted ==
  IF tbl = 1 THEN talents' # talents ELSE record'.talents # talents

\* C14 as stated: a talent is dropped exactly when it has neither a name nor
\* a detail entry; with at least one detail entry it is emitted, named or not.
C14_DroppedIffBothMissing ==
  [][ppc = "talent_return" =>
       (~TalentEmitted <=> (talent.talent_name = 0 /\ talent.details = <<>>))]_vars

\* C14 amended: a talent is emitted exactly when it has a non-empty name and
\* at least one detail entry; a talent with details and no name is dropped.
C14_EmittedIffNameAndDetails ==
  [][ppc = "talent_return" =>
       (TalentEmitted <=> (talent.talent_name # 0 /\ talent.details # <<>>))]_vars

\* C14 witness: a table whose rows gave a detail entry and no non-empty name
\* is about to be returned.
C14_Witness ==
  ppc = "talent_return" /\ talent.talent_name = 0 /\ talent.details # <<>>

\* C15: for a page with none of the section markers parse_all raises nothing
\* and returns a record with every section key, each of them empty: three
\* empty trait strings, five empty tier maps, an empty extra_attributes, empty
\* talents, skills and terms.
C15_EmptyPageRecord ==
  (ppc = "done" /\ markers = {}) =>
     /\ exc = "none"
     /\ DOMAIN record = SectionKeys
     /\ record.characteristic =
          [branch_name |-> 0, branch_description |-> 0, trait_details |-> 0]
     /\ DOMAIN record.attributes.base_attributes = Tiers
     /\ \A t \in Tiers : record.attributes.base_attributes[t] = 0
     /\ record.attributes.extra_attributes = 0
     /\ record.talents = <<>>
     /\ record.skills = <<>>
     /\ record.terms = <<>>

\* C15 witness: parse_all is through with a page that had no marker.
C15_Witness == ppc = "done" /\ markers = {} /\ exc = "none"

\* C16: on a page with an incomplete section (a talent detail row of fewer
\* than 3 cells, a skills heading outside an h2 or not followed by a table, a
\* trait row without cells) parse_all raises nothing and returns a record
\* with all its sections.
C16_IncompleteSectionTolerated ==
  (ppc = "done" /\ incomplete # {}) =>
     (exc = "none" /\ DOMAIN record = SectionKeys)

\* C17: in a batch at most one detail page is open, none outside a fetch;
\* the next name is taken only by the step that ends the pause, with the
\* fetch and the writes of the name before over; a fetch starts only for
\* the name at hand.
C17_OneInFlight ==
  /\ openTabs <= 1
  /\ bpc # "fetch" => (openTabs = 0 /\ op[W] # "run")
C17_Step ==
  /\ (item >= 1 /\ item' # item) =>
        (bpc = "sleep" /\ item' = item + 1 /\ pc[W] = "idle" /\ openTabs = 0)
  /\ (op[W] # "run" /\ op'[W] = "run") => (bpc = "fetch" /\ openTabs = 0)
  /\ (bpc # "loop" /\ bpc' = "loop" /\ item' > 1) => bpc = "sleep"
C18_BatchReturnsCount ==
  (bpc = "done" /\ item >= 1 /\ nnames >= 1) =>
     /\ attempted = 1..nnames
     /\ batch_result = [kind |-> "returned", value |-> Cardinality(synced)]

\* C19: sync_operator_detail_to_db returns True only if every logical write
\* it issued reached the store.
C19_TrueOnlyIfAllWritten ==
  (bpc = "write" /\ opIdx > Len(operations) /\ success) => allWritten

\* the rows a write keeps for a subject, ids aside: the values of its parent
\* rows and, for the child rows written for the subject, the value and
\* whether the parent is still there
Content(st, o, n) ==
  LET ps == {r \in st[ParentTable(o)] : r.owner = n}
      cs == IF ChildTable(o) = "none" THEN {}
            ELSE {c \in st[ChildTable(o)] : c.of = n}
  IN [parents |-> {r.v : r \in ps},
      nparents |-> Cardinality(ps),
      kids |-> {[v |-> c.v, kept |-> \E r \in ps : r.id = c.owner] : c \in cs},
      nkids |-> Cardinality(cs)]

\* C20: a replace write committed with the list the same write last
\* committed for the subject leaves the subject's rows, child rows included,
\* as they were, and every one of them written by this call.
C20_Step ==
  (wpc = "commit" /\ wpc' = "idle" /\ ret'
     /\ lastOk[call.op][call.name] = call.data) =>
     /\ Content(store', call.op, call.name) = Content(store, call.op, call.name)
     /\ \A t \in {ParentTable(call.op), ChildTable(call.op)} \ {"none"} :
          \A r \in store'[t] : r.of = call.name => r.by = calls
C20_ReplaceIdempotent == [][C20_Step]_vars

\* C21: when the walk of a skill table is over, the remark is the text of the
\* first cell of the last row if the second-to-last row has a header cell,
\* and empty if it has none.
C21_RemarkAfterHeader ==
  ppc = "skill_return" =>
     skill.remark = (IF rows >= 2 /\ (rows - 2) \in seen.th THEN seen.last_text ELSE 0)

\* C22: no talent row with cells fails to be consumed, and when the walk of
\* a talent table is over the detail entries are, in row order, those of the
\* rows with cells other than row 0 and, if the second-to-last row has a
\* header cell, other than that row and the last one, whose first cell is
\* then the remarks.
C22_RowOrder ==
  /\ exc # "IndexError"
  /\ ppc = "talent_return" =>
       LET hdr == rows >= 2 /\ (rows - 2) \in seen.th
           out == {0} \cup (IF hdr THEN {rows - 2, rows - 1} ELSE {})
           d == talent.details
       IN /\ {d[i] : i \in 1..Len(d)} = seen.cells \ out
          /\ \A i, j \in 1..Len(d) : i < j => d[i] < d[j]
          /\ hdr => talent.remarks = seen.last_text

\* C23: whatever clean_text is given, the text it returns has no two
\* whitespace characters in a row and none at either end, and for None or ""
\* it is empty.
C23_Normalized ==
  tpc = "returned" =>
     /\ \A i \in 1..(Len(text) - 1) : ~(text[i] \in WS /\ text[i + 1] \in WS)
     /\ text # <<>> => (text[1] \notin WS /\ text[Len(text)] \notin WS)
     /\ (tag.kind = "none" \/ tag.v = <<>>) => text = <<>>

\* the raw rarity of an entry, a number, if its attribute is a single digit;
\* 0 for an entry without the attribute
RawOf(attr) == IF attr = Missing THEN 0 ELSE int(strip(attr))
HasRaw(attr) == attr = Missing \/ (IsInt(strip(attr)) /\ int(strip(attr)) \in 0..5)

\* C24: every emitted entry whose raw rarity is r in 0..5 (0 when the
\* attribute is missing) has the rarity r + 1, which lies in 1..6, and no such
\* entry makes parse raise.
C24_Emitted ==
  \A i \in 1..Len(ops_list) :
     HasRaw(op_divs[i]) =>
        /\ IsInt(ops_list[i])
        /\ int(ops_list[i]) = RawOf(op_divs[i]) + 1
        /\ int(ops_list[i]) \in 1..6
        /\ Len(ops_list[i]) = 1
C24_Step ==
  (rpc = "loop" /\ rpc' = "raised") => ~HasRaw(op_divs[Len(ops_list) + 1])
C24_RarityPlusOne == []C24_Emitted /\ [][C24_Step]_vars

\* C24 witness: a roster of an entry without the attribute and an entry of
\* raw rarity 5 has been parsed.
C24_Witness ==
  /\ rpc = "returned"
  /\ op_divs = <<Missing, <<"5">>>>
  /\ ops_list = <<<<"1">>, <<"6">>>>

PtLabels == {"pt_evaluate", "pt_loop", "pt_hover", "pt_tooltip", "pt_mouse", "pt_final"}
LoadChain == <<"ibp_new_page", "ibp_goto", "ibp_wait_selector", "ibp_networkidle",
               "ibp_sleep", "parse_all">>

\* C25: a fetch reaches each step of the load (page opened, navigation, wait
\* for the content marker, network idle, extra delay, parsing) only from the
\* step before it, within the same attempt and on the page of that attempt;
\* the markup is snapshotted and the extractors run, in their order, only in
\* parsing, and the record is assembled only after all of them.
C25_NothingBeforeLoaded ==
  (op[W] = "run" /\ pc[W] \notin ({"parse_all", "run_finally"} \cup PtLabels)) =>
     (snap = <<>> /\ extractLog = <<>> /\ runResult # "record")
C25_Step ==
  /\ \A k \in 2..Len(LoadChain) :
       (pc'[W] = LoadChain[k] /\ pc[W] # LoadChain[k] /\ pc[W] \notin PtLabels) =>
          (pc[W] = LoadChain[k - 1] /\ attempt' = attempt /\ page' # None
             /\ (k > 2 => page' = page))
  /\ (snap' # snap /\ snap' # <<>>) => (pc[W] = "parse_all" /\ extractLog = <<>>)
  /\ (extractLog' # extractLog /\ extractLog' # <<>>) =>
        /\ pc[W] = "parse_all"
        /\ snap # <<>>
        /\ extractLog' = SubSeq(ParseOrder, 1, Len(extractLog) + 1)
  /\ (runResult' = "record" /\ runResult # "record") => extractLog = ParseOrder
C25_FetchOrder == []C25_NothingBeforeLoaded /\ [][C25_Step]_vars

\* C25 witness: a record has been assembled by the second attempt of a fetch.
C25_Witness ==
  /\ pc[W] = "run_finally" /\ runResult = "record"
  /\ failed_attempts = 1 /\ attempt = 1 /\ extractLog = ParseOrder

\* C26: an emitted term has a name of at least term_min_length characters
\* that is not a number, a description of at least desc_min_length characters
\* and a type other than its name.
C26_EmittedTermValid ==
  epc = "appended" =>
     /\ Len(entry.term_name) >= term_min_length
     /\ ~isdigit(entry.term_name)
     /\ entry.term_description >= desc_min_length
     /\ entry.term_type # entry.term_name

\* C26 witness: a term was emitted whose type was replaced by the label
\* because the tooltip's strong text was its name.
C26_Witness ==
  /\ epc = "appended" /\ entry.term_type = NoType
  /\ entry.term_name = <<"a", "1">> /\ entry.term_description = desc_min_length

\* C27: once the caller wants the batch abandoned, the top of the loop starts
\* no further fetch; a fetch in flight when the request comes goes on.
C27_Step ==
  /\ (abandon /\ bpc = "loop") => bpc' # "fetch"
  /\ (~abandon /\ abandon' /\ bpc = "fetch") => (bpc' = "fetch" /\ pc' = pc /\ page' = page)
C27_AbandonBetweenItems == [][C27_Step]_vars

\* C28: at most one tab of a detail fetch is open, and it belongs to the
\* fetch in flight; a tab is opened only when none is open and the parser
\* holds no page, within a fetch and from one subject of a batch to the next.
C28_OneTab ==
  /\ openTabs <= 1
  /\ openTabs = 1 => (page # None /\ op[W] = "run")
C28_Step ==
  openTabs' > openTabs => (openTabs = 0 /\ page = None /\ pc[W] = "ibp_new_page")
C29_Step ==
  (op[W] = "acquire" /\ pc'[W] = "idle" /\ last'.raised) =>
     /\ ~browser_initialized'
     /\ shared_playwright' = None /\ shared_browser' = None /\ shared_context' = None
     /\ shared_playwright \notin liveDrivers'
     /\ shared_browser \notin liveBrowsers'
     /\ shared_context \notin liveContexts'
C29_FailedAcquireCleansUp == [][C29_Step]_vars

\* C30: a replace write that ends after its DELETE statements without having
\* committed leaves the stored rows as they were before the call, discards
\* what the transaction saw and returns False.
C30_Step ==
  (wpc \in {"insert", "commit"} /\ wpc' = "idle" /\ ~(ret' /\ store' = work)) =>
     /\ ~ret'
     /\ store' = store
     /\ work' = store
     /\ Content(store', call.op, call.name) = Content(store, call.op, call.name)
====
